---------------------------- MODULE Spec2Model ----------------------------
(***************************************************************************)
(* Captive-portal soft-AP stack of the Pico W alarm firmware: the DHCP     *)
(* server (dhcpserver.c), the catch-all DNS server (dnsserver.c) and the   *)
(* callback-driven HTTP server (network_manager.c).                        *)
(*                                                                         *)
(* Each server is a state machine of its own; SpecDhcp, SpecDns and        *)
(* SpecHttp run one of them and leave the state of the others alone.       *)
(*                                                                         *)
(* 32-bit quantities are kept as two 16-bit halves [hi, lo] (the model     *)
(* checker's integers are 32-bit signed), with the arithmetic done modulo  *)
(* 2^32 as the C code does it.  Multi-byte wire values are tuples of       *)
(* bytes.                                                                  *)
(***************************************************************************)
EXTENDS Integers, Sequences, FiniteSets, TLC

VARIABLES
    lease,      \* d->lease[DHCPS_MAX_IP]: [mac, expiry] per slot (mac 0 = all-zero)
    now,        \* cyw43_hal_ticks_ms(), a uint32 as [hi, lo]
    ticks,      \* number of time steps taken so far
    joined,     \* highest client number that has sent a datagram so far
    dhcpIn,     \* the datagram dhcp_server_process has just handled (tot_len 0: none)
    dhcpOut,    \* what it handed to dhcp_socket_sendto for it (sent = FALSE: nothing)
    run,        \* the kind of run: how many clients there are and how many time steps
    quiet,      \* the client served last with nothing else happening since, and its yiaddr
    quietPrev,  \* the yiaddr that client was given before the last datagram (0: none)
    dnsIn,      \* the datagram dns_server_process has just handled (tot_len 0: none)
    dnsOut,     \* what it handed to dns_socket_sendto for it (sent = FALSE: nothing)
    server,     \* which HTTP server runs: "network_manager" or "web_server"
    phase,      \* "running", "complete" (shutdown asked for) or "ended" (stack shut down)
    pcb,        \* per connection, the TCP handle: "none", "open", "closing", "aborted", "gone"
    cbs,        \* per connection, what is registered on the handle: arg, recv, sent, poll, err
    con_state,  \* per connection, the state allocated on accept and its fields
    unacked,    \* per connection, bytes handed to tcp_write and not acknowledged yet
    reqs,       \* per connection, the number of data segments received
    last,       \* the callback that ran last, its connection and the teardown trigger it saw
    uaf,        \* a callback has been entered with a pointer to a freed state
    misuse,     \* the TCP API has been called on a handle the stack had released
    s_alarm_active, \* alarm_control.c: the alarm is active
    outputs,    \* number of times alarm_control_set_active has switched the outputs
    served,     \* number of requests tcp_server_recv has been called with
    request,    \* the bytes of the request served last ("" before the first)
    prev,       \* the request served before that, its page and the alarm state after it
    reply,      \* what tcp_server_recv did for the request served last
    pc,         \* where main is
    arch,       \* "poll" (PICO_CYW43_ARCH_POLL) or "background": how callbacks are run
    initFault,  \* the call that fails during initialisation ("none": none does)
    complete,   \* the shutdown flag: state->complete, net.shutdown
    key,        \* the character read from the console last ("": none so far)
    reads,      \* number of characters read from the console
    gpio,       \* levels of the green, blue and red LED and of the buzzer
    oled,       \* the screen the display shows
    toggle,     \* s_alarm_output_toggle_state
    level,      \* the value alarm_control_process has computed at line 88
    s_last_toggle_time_us, \* how long ago that time was, in ms, up to BlinkCap
    log,        \* the start-up and shutdown steps main has made, in order
    returned,   \* what main has returned: "no", "0", "1" or "abort"
    actor,      \* the function that made the last step
    acked,      \* per slot, the MAC of its last ACK and the milliseconds since
    offered,    \* per client, the last octet of the yiaddr of its last OFFER (0: none)
    promised,   \* what offered held for the sender of the last datagram
    held        \* per client, the slot of its last ACK (-1: none) and the milliseconds since

dhcpVars == <<lease, now, ticks, joined, run, dhcpIn, dhcpOut, quiet, quietPrev>>

dnsVars == <<dnsIn, dnsOut>>

httpVars == <<server, phase, pcb, cbs, con_state, unacked, reqs, last, uaf, misuse>>

pageVars == <<s_alarm_active, outputs, served, request, prev, reply>>

mainVars == <<pc, arch, initFault, complete, key, reads, gpio, oled, toggle, level,
              s_last_toggle_time_us, log, returned, actor>>

leaseVars == <<acked, offered, promised, held>>

vars == <<dhcpVars, dnsVars, httpVars, pageVars, mainVars, leaseVars>>

\* What the DHCP server leaves alone, the record of its replies apart.
notDhcpVars_lease == <<dnsVars, httpVars, pageVars, mainVars>>

\* What the DHCP server leaves alone.
notDhcpVars == <<dnsVars, httpVars, pageVars, mainVars, leaseVars>>

notDnsVars == <<dhcpVars, httpVars, pageVars, mainVars, leaseVars>>

notHttpVars == <<dhcpVars, dnsVars, pageVars, mainVars, leaseVars>>

notPageVars == <<dhcpVars, dnsVars, httpVars, mainVars, leaseVars>>

-----------------------------------------------------------------------------
(* Bounds of the model *)

\* Clients are numbered from 1; client 0 is the all-zero chaddr.  A run has
\* either NumClients clients and no time step (enough to fill the pool), or
\* FewClients clients and up to MaxTicks time steps (leases expire and
\* slots are recycled).
NumClients == 9
FewClients == 2
MaxTicks == 3
\* Clients that have shown up and hold no slot, beyond which no new client
\* shows up.
MaxWaiting == 2

-----------------------------------------------------------------------------
(* Program constants *)

DHCPS_BASE_IP == 16
DHCPS_MAX_IP == 8
DHCPDISCOVER == 1
DHCPOFFER == 2
DHCPREQUEST == 3
DHCPACK == 5
DHCP_OPT_PAD == 0
DHCP_OPT_SUBNET_MASK == 1
DHCP_OPT_ROUTER == 3
DHCP_OPT_DNS == 6
DHCP_OPT_IP_LEASE_TIME == 51
DHCP_OPT_MSG_TYPE == 53
DHCP_OPT_SERVER_ID == 54
DHCP_OPT_END == 255
PORT_DHCP_CLIENT == 68
DEFAULT_LEASE_TIME_S == 86400
\* offsetof(dhcp_msg_t, options): 4 + 4 + 2 + 2 + 4*4 + 16 + 64 + 128
DHCP_FIXED_PART_SIZE == 236
\* sizeof(dhcp_msg.options) - 4: the bytes opt_find may look at
OPT_SCAN_LIMIT == 308

DHCP_MIN_REQUIRED_SIZE == DHCP_FIXED_PART_SIZE + 4

\* IP4_ADDR(&state->gw, 192, 168, 4, 1) and the mask, as the bytes in memory
\* (an ip4_addr_t holds the address in network order).
GW_IP == <<192, 168, 4, 1>>
NETMASK == <<255, 255, 255, 0>>
MagicCookie == <<99, 130, 83, 99>>
BroadcastIp == <<255, 255, 255, 255>>
ZeroIp == <<0, 0, 0, 0>>

-----------------------------------------------------------------------------
(* Fixed-width arithmetic *)

W16 == 256 * 256

\* (int16_t) of a value already reduced to 0..65535
Int16(x) == IF x >= 32768 THEN x - W16 ELSE x

\* a + b (mod 2^32) on [hi, lo] halves
U32Add(a, b) ==
    LET lo == a.lo + b.lo
    IN  [hi |-> (a.hi + b.hi + (lo \div W16)) % W16, lo |-> lo % W16]

\* a - b (mod 2^32) on [hi, lo] halves
U32Sub(a, b) ==
    LET borrow == IF a.lo < b.lo THEN 1 ELSE 0
    IN  [hi |-> (a.hi - b.hi - borrow + 2 * W16) % W16,
         lo |-> (a.lo - b.lo + W16) % W16]

\* (int32_t)x < 0
Int32Negative(x) == x.hi >= 32768

\* a value below 2^31 as a uint32
U32Of(n) == [hi |-> n \div W16, lo |-> n % W16]

\* The four bytes of a 32-bit value below 2^31, most significant first.
U32Bytes(n) ==
    <<(n \div 16777216) % 256, (n \div 65536) % 256, (n \div 256) % 256, n % 256>>

Reverse4(b) == <<b[4], b[3], b[2], b[1]>>

\* ip4_addr_get_u32 on the little-endian target: the uint32 whose memory
\* image is the four address bytes; values are written most significant first.
ip4_addr_get_u32(mem) == Reverse4(mem)

\* memcpy(dst, &u32, 4) on the little-endian target
MemOfU32(val) == Reverse4(val)

\* lwip_htonl on the little-endian target: a byte swap
lwip_htonl(val) == Reverse4(val)


-----------------------------------------------------------------------------
(* DHCP option helpers *)

NULL == 0 - 1

\* opt[i] of the local dhcp_msg.options[4 + i] (0-based).  The buffer holds
\* the option bytes received, then whatever the stack held before (the
\* struct is not cleared); past the modelled bytes the stack is taken to
\* hold an END.
OptByte(buf, i) == IF i < Len(buf) THEN buf[i + 1] ELSE DHCP_OPT_END

RECURSIVE OptFindFrom(_, _, _)
OptFindFrom(buf, cmd, i) ==
    IF ~(i < OPT_SCAN_LIMIT /\ OptByte(buf, i) # DHCP_OPT_END) THEN NULL
    ELSE IF OptByte(buf, i) = cmd THEN i
    ELSE IF OptByte(buf, i) = DHCP_OPT_PAD THEN OptFindFrom(buf, cmd, i + 1)
    ELSE OptFindFrom(buf, cmd, i + 2 + OptByte(buf, i + 1))

opt_find(buf, cmd) == OptFindFrom(buf, cmd, 0)

opt_write_n(cmd, mem) == <<cmd, Len(mem)>> \o mem

opt_write_u8(cmd, val) == <<cmd, 1, val>>

\* writes val >> 24, val >> 16, val >> 8, val
opt_write_u32(cmd, val) == <<cmd, 4>> \o val

\* The options common to OFFER and ACK, then END.
CommonOptions ==
    opt_write_u32(DHCP_OPT_SERVER_ID, ip4_addr_get_u32(GW_IP))
    \o opt_write_n(DHCP_OPT_SUBNET_MASK, MemOfU32(ip4_addr_get_u32(NETMASK)))
    \o opt_write_n(DHCP_OPT_ROUTER, MemOfU32(ip4_addr_get_u32(GW_IP)))
    \o opt_write_n(DHCP_OPT_DNS, MemOfU32(ip4_addr_get_u32(GW_IP)))
    \o opt_write_u32(DHCP_OPT_IP_LEASE_TIME, lwip_htonl(U32Bytes(DEFAULT_LEASE_TIME_S)))
    \o <<DHCP_OPT_END>>

-----------------------------------------------------------------------------
(* Lease table *)

Slots == 0 .. (DHCPS_MAX_IP - 1)

FreeSlot == [mac |-> 0, expiry |-> 0]

\* DISCOVER's test of a slot with a non-zero MAC:
\* (int16_t)(current_time_marker - expiry) > 0 && expiry != 0
ExpiredDiscover(e, t) == Int16((t.hi - e + W16) % W16) > 0 /\ e # 0

\* REQUEST's test: (int32_t)(((expiry << 16) | 0xFFFF) - ticks_ms) < 0
ExpiredRequest(e, t) == Int32Negative(U32Sub([hi |-> e, lo |-> W16 - 1], t))

\* An expiry that leaves the lease time out: ticks_ms >> 16.
NewExpiry_Now(t) == t.hi

\* (ticks_ms + DEFAULT_LEASE_TIME_S * 1000) >> 16, stored in a uint16_t
NewExpiry(t) == U32Add(t, U32Of(DEFAULT_LEASE_TIME_S * 1000)).hi

FirstOr(best, i) == IF best = NULL THEN i ELSE best

\* The DISCOVER loop from slot i on: stops at the slot holding chaddr,
\* remembers the first free slot, clears the expired slots it passes.
RECURSIVE DiscoverScan(_, _, _, _, _)
DiscoverScan(ls, i, best, chaddr, t) ==
    IF i = DHCPS_MAX_IP THEN [lease |-> ls, yi |-> NULL, best |-> best]
    ELSE IF ls[i].mac = chaddr THEN [lease |-> ls, yi |-> i, best |-> best]
    ELSE IF ls[i].mac = 0 THEN DiscoverScan(ls, i + 1, FirstOr(best, i), chaddr, t)
    ELSE IF ExpiredDiscover(ls[i].expiry, t)
         THEN DiscoverScan([ls EXCEPT ![i] = FreeSlot], i + 1, FirstOr(best, i), chaddr, t)
    ELSE DiscoverScan(ls, i + 1, best, chaddr, t)

\* A REQUEST path without the lookup of step 1.
RequestMatch_NoLookup(ls, chaddr) == DHCPS_MAX_IP

\* REQUEST, step 1: the slot holding chaddr, DHCPS_MAX_IP if none
RequestMatch(ls, chaddr) ==
    IF \E i \in Slots : ls[i].mac = chaddr
    THEN CHOOSE i \in Slots : ls[i].mac = chaddr /\ \A j \in Slots : j < i => ls[j].mac # chaddr
    ELSE DHCPS_MAX_IP

RequestFree(ls, i, t) == ls[i].mac = 0 \/ ExpiredRequest(ls[i].expiry, t)

\* A step 2 that takes the last slot when none is free.
RequestFirstFree_Evict(ls, t) ==
    IF \E i \in Slots : RequestFree(ls, i, t)
    THEN CHOOSE i \in Slots : RequestFree(ls, i, t) /\ \A j \in Slots : j < i => ~RequestFree(ls, j, t)
    ELSE DHCPS_MAX_IP - 1

\* REQUEST, step 2: the first free or expired slot, DHCPS_MAX_IP if none
RequestFirstFree(ls, t) ==
    IF \E i \in Slots : RequestFree(ls, i, t)
    THEN CHOOSE i \in Slots : RequestFree(ls, i, t) /\ \A j \in Slots : j < i => ~RequestFree(ls, j, t)
    ELSE DHCPS_MAX_IP

\* A yiaddr whose last octet is the bare slot index.
YiAddr_NoBase(idx) == <<GW_IP[1], GW_IP[2], GW_IP[3], idx % 256>>

\* yiaddr = the gateway address with its last octet replaced
YiAddr(idx) == <<GW_IP[1], GW_IP[2], GW_IP[3], (DHCPS_BASE_IP + idx) % 256>>

-----------------------------------------------------------------------------
(* dhcp_server_process *)

\* The fixed part of a dhcp_msg_t ahead of the options: op, htype, hlen, hops,
\* xid, secs, flags, ciaddr, yiaddr, siaddr, giaddr, chaddr (the MAC and the
\* ten bytes after it), sname and file (a string stands for the 64 and the
\* 128 bytes).
FixedPart(op, htype, hlen, hops, xid, secs, flags, ciaddr, yiaddr, siaddr, giaddr, chaddr, chaddr_pad, sname, file) ==
    [op |-> op, htype |-> htype, hlen |-> hlen, hops |-> hops, xid |-> xid, secs |-> secs,
     flags |-> flags, ciaddr |-> ciaddr, yiaddr |-> yiaddr, siaddr |-> siaddr,
     giaddr |-> giaddr, chaddr |-> chaddr, chaddr_pad |-> chaddr_pad,
     sname |-> sname, file |-> file]

NoHeader ==
    FixedPart(0, 0, 0, 0, ZeroIp, <<0, 0>>, <<0, 0>>, ZeroIp, ZeroIp, ZeroIp, ZeroIp, 0, 0, "", "")

\* A reply header written afresh, with the xid and the chaddr of the request.
ReplyHeader_Fresh(msg, yi) ==
    FixedPart(2, 1, 6, 0, msg.xid, <<0, 0>>, <<0, 0>>, ZeroIp,
              YiAddr(yi), GW_IP, ZeroIp,
              msg.chaddr, 0, "", "")

\* dhcp_msg as it is sent: the copy of the inbound message with op, siaddr
\* and yiaddr overwritten.
ReplyHeader(msg, yi) ==
    [msg EXCEPT !.op = 2,
                !.siaddr = GW_IP,
                !.yiaddr = YiAddr(yi)]

NoReply ==
    [sent |-> FALSE, op |-> 0, type |-> 0, idx |-> NULL, yiaddr |-> ZeroIp,
     siaddr |-> ZeroIp, opts |-> <<>>, len |-> 0, dest |-> ZeroIp, port |-> 0,
     hdr |-> NoHeader]

\* dhcp_msg.flags is the two wire bytes read as a little-endian uint16_t
FlagsLE(w) == w[2] * 256 + w[1]

\* PP_HTONS on the little-endian target
PP_HTONS(x) == (x % 256) * 256 + (x \div 256)

\* (dhcp_msg.flags & PP_HTONS(0x8000)) != 0; the mask is a single bit
BroadcastFlagSet(w) == ((FlagsLE(w) \div PP_HTONS(32768)) % 2) = 1

CiaddrIsZero(dg) == dg.ciaddr[1] = 0 /\ dg.ciaddr[2] = 0 /\ dg.ciaddr[3] = 0 /\ dg.ciaddr[4] = 0

\* The reply destination: the test is on the type extracted from the
\* inbound message.
ReplyDest(extracted_msg_type, dg, yiaddr) ==
    IF extracted_msg_type = DHCPACK /\ ~BroadcastFlagSet(dg.flags) /\ CiaddrIsZero(dg)
    THEN yiaddr
    ELSE BroadcastIp

\* The reply built in dhcp_msg and handed to dhcp_socket_sendto.
MakeReply(extracted_msg_type, reply_type, yi, dg) ==
    LET opts == opt_write_u8(DHCP_OPT_MSG_TYPE, reply_type) \o CommonOptions
    IN  [sent |-> TRUE, op |-> 2, type |-> reply_type, idx |-> yi,
         yiaddr |-> YiAddr(yi), siaddr |-> GW_IP, opts |-> opts,
         len |-> DHCP_MIN_REQUIRED_SIZE + Len(opts),
         dest |-> ReplyDest(extracted_msg_type, dg, YiAddr(yi)),
         port |-> PORT_DHCP_CLIENT,
         hdr |-> ReplyHeader([dg.hdr EXCEPT !.flags = dg.flags, !.ciaddr = dg.ciaddr,
                                            !.chaddr = dg.chaddr], yi)]

Dropped(ls) == [lease |-> ls, reply |-> NoReply]

\* case DHCPDISCOVER
HandleDiscover(ls, t, dg) ==
    LET scan == DiscoverScan(ls, 0, NULL, dg.chaddr, t)
        yi_idx == IF scan.yi = NULL /\ scan.best # NULL THEN scan.best ELSE scan.yi
    IN  IF yi_idx = NULL THEN Dropped(scan.lease)
        ELSE [lease |-> scan.lease,
              reply |-> MakeReply(DHCPDISCOVER, DHCPOFFER, yi_idx, dg)]

\* case DHCPREQUEST
HandleRequest(ls, t, dg) ==
    LET match == RequestMatch(ls, dg.chaddr)
        yi == IF match = DHCPS_MAX_IP THEN RequestFirstFree(ls, t) ELSE match
    IN  IF yi = DHCPS_MAX_IP THEN Dropped(ls)
        ELSE [lease |-> [ls EXCEPT ![yi] = [mac |-> dg.chaddr, expiry |-> NewExpiry(t)]],
              reply |-> MakeReply(DHCPREQUEST, DHCPACK, yi, dg)]

\* The whole callback up to the send: validation, then the switch.
ProcessResult(ls, t, dg) ==
    IF dg.tot_len < DHCP_MIN_REQUIRED_SIZE THEN Dropped(ls)
    ELSE IF dg.cookie # MagicCookie THEN Dropped(ls)
    ELSE LET buf == dg.opts \o dg.stack
             msg_type_opt == opt_find(buf, DHCP_OPT_MSG_TYPE)
         IN  IF msg_type_opt = NULL \/ OptByte(buf, msg_type_opt + 1) # 1 THEN Dropped(ls)
             ELSE LET extracted_msg_type == OptByte(buf, msg_type_opt + 2)
                  IN  IF extracted_msg_type = DHCPDISCOVER THEN HandleDiscover(ls, t, dg)
                      ELSE IF extracted_msg_type = DHCPREQUEST THEN HandleRequest(ls, t, dg)
                      ELSE Dropped(ls)

-----------------------------------------------------------------------------
(* Datagrams arriving on UDP/67 *)

\* The rest of the fixed part as a client fills it in: BOOTREQUEST, Ethernet,
\* a transaction id, nothing else.  flags, ciaddr and chaddr are kept in
\* the datagram itself.
PlainHeader ==
    FixedPart(1, 1, 6, 0, <<57, 3, 243, 38>>, <<0, 0>>, <<0, 0>>, ZeroIp, ZeroIp, ZeroIp, ZeroIp,
              0, 0, "", "")

Datagram(len, cookie, opts, stack, chaddr, flags, ciaddr) ==
    [tot_len |-> len, cookie |-> cookie, opts |-> opts, stack |-> stack,
     chaddr |-> chaddr, flags |-> flags, ciaddr |-> ciaddr, hdr |-> PlainHeader]

\* A datagram whose options are all received.
Whole(opts, chaddr, flags, ciaddr) ==
    Datagram(DHCP_MIN_REQUIRED_SIZE + Len(opts), MagicCookie, opts, <<>>, chaddr, flags, ciaddr)

MsgTypeOpts(t) == <<DHCP_OPT_MSG_TYPE, 1, t, DHCP_OPT_END>>

NoFlags == <<0, 0>>
BroadcastFlags == <<128, 0>>
SomeCiaddr == <<192, 168, 4, 16>>

\* DISCOVER and REQUEST as clients send them.
ClientDatagrams(m) ==
    {Whole(MsgTypeOpts(DHCPDISCOVER), m, NoFlags, ZeroIp),
     Whole(MsgTypeOpts(DHCPREQUEST), m, NoFlags, ZeroIp)}
    \cup (IF m <= 1 /\ run.ticks = 0
          THEN {Whole(MsgTypeOpts(DHCPREQUEST), m, f, c) :
                  f \in {NoFlags, BroadcastFlags}, c \in {ZeroIp, SomeCiaddr}}
          ELSE {})

\* What the uninitialised part of dhcp_msg.options may hold.
StackContents ==
    {<<DHCP_OPT_END>>, MsgTypeOpts(DHCPDISCOVER), MsgTypeOpts(DHCPREQUEST)}

\* Other datagrams: too short, wrong cookie, option 53 absent, of length 2
\* or of another type, options cut off, options that precede option 53.
OddDatagrams(m) ==
    {Datagram(DHCP_MIN_REQUIRED_SIZE - 1, MagicCookie, <<>>, <<>>, m, NoFlags, ZeroIp),
     Datagram(DHCP_MIN_REQUIRED_SIZE + 4, <<99, 130, 83, 0>>, MsgTypeOpts(DHCPREQUEST), <<>>,
              m, NoFlags, ZeroIp),
     Whole(<<DHCP_OPT_END>>, m, NoFlags, ZeroIp),
     Whole(<<DHCP_OPT_MSG_TYPE, 2, DHCPREQUEST, 0, DHCP_OPT_END>>, m, NoFlags, ZeroIp),
     Whole(MsgTypeOpts(4), m, NoFlags, ZeroIp),
     Whole(MsgTypeOpts(7), m, NoFlags, ZeroIp),
     Whole(MsgTypeOpts(8), m, NoFlags, ZeroIp),
     Whole(<<DHCP_OPT_PAD, 12, 1, 97>> \o MsgTypeOpts(DHCPDISCOVER), m, NoFlags, ZeroIp),
     Whole(<<50, 4, 192, 168, 4, 99>> \o MsgTypeOpts(DHCPREQUEST), m, NoFlags, ZeroIp)}
    \cup {Datagram(DHCP_MIN_REQUIRED_SIZE, MagicCookie, <<>>, st, m, NoFlags, ZeroIp) :
            st \in StackContents}

Holds(ls, m) == \E i \in Slots : ls[i].mac = m

Waiting == {m \in 1 .. joined : ~Holds(lease, m)}

\* Clients show up in the order of their numbers (the code only compares
\* MACs with each other and with zero, so the numbering is immaterial).
Senders ==
    0 .. (IF joined < run.clients /\ Cardinality(Waiting) < MaxWaiting THEN joined + 1 ELSE joined)

\* The senders of the datagrams that are no plain DISCOVER or REQUEST; they
\* are sent in the runs in which the clock stands still.
OddSenders == {m \in Senders : m <= 1 /\ run.ticks = 0}

Runs == {[clients |-> NumClients, ticks |-> 0], [clients |-> FewClients, ticks |-> MaxTicks]}

-----------------------------------------------------------------------------
(* Actions of the DHCP server *)

NoDatagram == Datagram(0, ZeroIp, <<>>, <<>>, 0, NoFlags, ZeroIp)

NoQuiet == [mac |-> NULL, yi |-> 0]

DhcpInit ==
    /\ lease = [i \in Slots |-> FreeSlot]
    /\ now = U32Of(0)
    /\ ticks = 0
    /\ joined = 0
    /\ dhcpIn = NoDatagram
    /\ dhcpOut = NoReply
    /\ run \in Runs
    /\ quiet = NoQuiet
    /\ quietPrev = 0

\* One datagram through dhcp_server_process; dhcpOut is the datagram it
\* hands to dhcp_socket_sendto.
Receive(dg) ==
    LET r == ProcessResult(lease, now, dg)
        out == r.reply
    IN  /\ dhcpIn = NoDatagram
        /\ lease' = r.lease
        /\ dhcpIn' = dg
        /\ dhcpOut' = out
        /\ joined' = IF dg.chaddr > joined THEN dg.chaddr ELSE joined
        /\ quietPrev' = IF quiet.mac = dg.chaddr THEN quiet.yi ELSE 0
        /\ quiet' = IF out.sent THEN [mac |-> dg.chaddr, yi |-> out.yiaddr[4]]
                    ELSE IF quiet.mac = dg.chaddr THEN quiet
                    ELSE NoQuiet
        /\ UNCHANGED <<now, ticks, run, notDhcpVars>>

dhcp_server_process ==
    \/ \E m \in Senders : \E dg \in ClientDatagrams(m) : Receive(dg)
    \/ \E m \in OddSenders : \E dg \in OddDatagrams(m) : Receive(dg)

\* Time steps: fifty seconds, a lease and a bit, and the long waits after
\* which the 16-bit expiry arithmetic wraps.
TickSteps ==
    {U32Of(50000), U32Of((DEFAULT_LEASE_TIME_S + 120) * 1000),
     [hi |-> 32766, lo |-> 0], [hi |-> W16 - (DEFAULT_LEASE_TIME_S * 1000) \div W16, lo |-> 0]}

\* Whether either path regards the slot as expired at time t.
SeenExpired(l, t) ==
    <<l.mac # 0 /\ ExpiredDiscover(l.expiry, t), l.mac # 0 /\ ExpiredRequest(l.expiry, t)>>

Tick ==
    /\ dhcpIn = NoDatagram
    /\ ticks < run.ticks
    /\ \E d \in TickSteps :
        /\ now' = U32Add(now, d)
        /\ quiet' = IF \E i \in Slots : SeenExpired(lease[i], now') # SeenExpired(lease[i], now)
                    THEN NoQuiet ELSE quiet
    /\ ticks' = ticks + 1
    /\ UNCHANGED <<lease, joined, run, dhcpIn, dhcpOut, quietPrev, notDhcpVars>>

\* The callback has returned and the reply, if any, has left: the server
\* waits for the next datagram.
Delivered ==
    /\ dhcpIn # NoDatagram
    /\ dhcpIn' = NoDatagram
    /\ dhcpOut' = NoReply
    /\ quietPrev' = 0
    /\ UNCHANGED <<lease, now, ticks, joined, run, quiet, notDhcpVars>>

DhcpNext == dhcp_server_process \/ Delivered \/ Tick

-----------------------------------------------------------------------------
(* Properties of the DHCP server *)

\* C1: lease uniqueness -- after any sequence of DISCOVER and REQUEST
\* datagrams, at any arrival times, no two slots of the lease table that
\* hold a non-zero MAC hold the same MAC.
C1_LeaseUniqueness ==
    \A i, j \in Slots :
        (i # j /\ lease[i].mac # 0 /\ lease[j].mac # 0) => lease[i].mac # lease[j].mac

\* A recycled table: client 1 came first and held slot 0, which client 2
\* holds now, and client 1 came back into slot 1.
C1_Recycled == lease[0].mac = 2 /\ lease[1].mac = 1 /\ ticks > 0

\* C2: pool containment -- in every OFFER and ACK sent, yiaddr is GW_IP with
\* its last octet replaced by 16 + the index of the selected slot (the slot
\* that holds the client's MAC after an ACK), so the last octet is in 16..23.
C2_PoolContainment ==
    dhcpOut.sent =>
        /\ dhcpOut.idx \in Slots
        /\ dhcpOut.yiaddr = <<GW_IP[1], GW_IP[2], GW_IP[3], 16 + dhcpOut.idx>>
        /\ dhcpOut.yiaddr[4] \in 16 .. 23
        /\ dhcpOut.type = DHCPACK => lease[dhcpOut.idx].mac = dhcpIn.chaddr

\* An ACK for the last address of the pool.
C2_LastAddressAcked ==
    dhcpOut.sent /\ dhcpOut.type = DHCPACK /\ dhcpOut.yiaddr = <<192, 168, 4, 23>>

\* Bit 15 of the flags field as it is on the wire (big-endian).
WireBroadcastBit(dg) == dg.flags[1] >= 128

\* C3: reply destination -- every OFFER goes to 255.255.255.255 port 68; an
\* ACK goes unicast to yiaddr port 68 if and only if the REQUEST has the
\* BROADCAST flag clear and ciaddr all-zero, and to 255.255.255.255 port 68
\* otherwise.
C3_ReplyDestination ==
    dhcpOut.sent =>
        /\ dhcpOut.port = 68
        /\ dhcpOut.type = DHCPOFFER => dhcpOut.dest = <<255, 255, 255, 255>>
        /\ dhcpOut.type = DHCPACK =>
             dhcpOut.dest = IF ~WireBroadcastBit(dhcpIn) /\ dhcpIn.ciaddr = <<0, 0, 0, 0>>
                            THEN dhcpOut.yiaddr
                            ELSE <<255, 255, 255, 255>>

\* C4: IP determinism -- for one client MAC, while the server receives no
\* other client's traffic and no lease expires in between, every OFFER and
\* ACK the client gets carries the same yiaddr as the reply before it.
C4_IpDeterminism ==
    (dhcpOut.sent /\ quietPrev # 0) => dhcpOut.yiaddr[4] = quietPrev

\* The message type carried by an Option 53 of length 1 that lies within
\* the option bytes received, NULL if there is none.
ReceivedMsgType(dg) ==
    LET i == opt_find(dg.opts, DHCP_OPT_MSG_TYPE)
    IN  IF i = NULL \/ i + 2 >= Len(dg.opts) \/ dg.opts[i + 2] # 1 THEN NULL
        ELSE dg.opts[i + 3]

\* The datagrams that are to be dropped.
ToBeDropped(dg) ==
    \/ dg.tot_len < 236 + 4
    \/ dg.cookie # <<99, 130, 83, 99>>
    \/ ReceivedMsgType(dg) \notin {DHCPDISCOVER, DHCPREQUEST}

\* C5: silent drop -- a datagram that is too short, or has a wrong magic
\* cookie, or carries no Option 53 of length 1 within the bytes received, or
\* whose message type is neither DISCOVER nor REQUEST, produces no reply and
\* leaves every slot of the lease table unchanged.
C5_SilentDrop ==
    [][(dhcpIn = NoDatagram /\ dhcpIn' # NoDatagram /\ ToBeDropped(dhcpIn'))
         => (~dhcpOut'.sent /\ lease' = lease)]_vars

\* C6: option wire content -- the options of every reply are, in this order,
\* 53 (OFFER 2 / ACK 5), 54 (GW_IP as C0 A8 04 01), 1 (NETMASK), 3 (GW_IP),
\* 6 (GW_IP), 51 (86400 as 00 01 51 80), then FF, and the datagram ends there.
C6_OptionWireContent ==
    dhcpOut.sent =>
        /\ dhcpOut.type \in {DHCPOFFER, DHCPACK}
        /\ dhcpOut.opts = <<53, 1, dhcpOut.type>>
                          \o <<54, 4, 192, 168, 4, 1>>
                          \o <<1, 4, 255, 255, 255, 0>>
                          \o <<3, 4, 192, 168, 4, 1>>
                          \o <<6, 4, 192, 168, 4, 1>>
                          \o <<51, 4, 0, 1, 81, 128>>
                          \o <<255>>
        /\ dhcpOut.len = 236 + 4 + Len(dhcpOut.opts)

-----------------------------------------------------------------------------
(* DNS server: dns_server_process *)

MAX_DNS_MSG_SIZE == 300
\* sizeof(dns_header_t)
DNS_HEADER_SIZE == 12
DNS_MAX_LABEL == 63
DNS_MAX_NAME == 255
DNS_ANSWER_TTL == 60

\* A query as it arrives: the UDP payload, where it came from, and what the
\* stack holds where dns_msg is placed (the array is not cleared).
DnsQuery(bytes, src, port, stack) ==
    [bytes |-> bytes, src_addr |-> src, src_port |-> port, stack |-> stack]

\* pbuf_copy_partial(p, dns_msg, sizeof(dns_msg), 0)
DnsMsgLen(q) ==
    IF Len(q.bytes) < MAX_DNS_MSG_SIZE THEN Len(q.bytes) ELSE MAX_DNS_MSG_SIZE

\* dns_msg[i] after the copy
DnsByte(q, i) ==
    IF i < DnsMsgLen(q) THEN q.bytes[i + 1] ELSE q.stack[(i % Len(q.stack)) + 1]

\* A uint16_t field of the header read at offset i by the little-endian CPU
LoadU16(q, i) == DnsByte(q, i) + 256 * DnsByte(q, i + 1)

\* The bytes a uint16_t is stored as by the little-endian CPU
StoreU16(x) == <<x % 256, x \div 256>>

lwip_ntohs(x) == (x % 256) * 256 + (x \div 256)

lwip_htons(x) == (x % 256) * 256 + (x \div 256)

\* A walk over the labels that accepts a label of any length.
RECURSIVE SkipName_AnyLabel(_, _)
SkipName_AnyLabel(q, ptr) ==
    IF ~(ptr < DnsMsgLen(q)) THEN ptr
    ELSE IF DnsByte(q, ptr) = 0 THEN ptr + 1
    ELSE SkipName_AnyLabel(q, ptr + 1 + DnsByte(q, ptr))

\* The while loop over the labels of the question name, from offset ptr on:
\* the offset it leaves question_ptr at, NULL where it jumps to
\* ignore_request.
RECURSIVE SkipName(_, _)
SkipName(q, ptr) ==
    IF ~(ptr < DnsMsgLen(q)) THEN ptr
    ELSE IF DnsByte(q, ptr) = 0 THEN ptr + 1
    ELSE IF DnsByte(q, ptr) > DNS_MAX_LABEL THEN NULL
    ELSE SkipName(q, ptr + 1 + DnsByte(q, ptr))

NoDnsReply == [sent |-> FALSE, bytes |-> <<>>, dest |-> ZeroIp, port |-> 0]

\* An answer record with a TTL of 0.
DnsAnswer_ZeroTtl ==
    <<192, DNS_HEADER_SIZE, 0, 1, 0, 1, 0, 0, 0, 0, 0, 4>>
    \o MemOfU32(ip4_addr_get_u32(GW_IP))

\* The answer record written after the question.
DnsAnswer ==
    <<192, DNS_HEADER_SIZE, 0, 1, 0, 1, 0, 0, 0, DNS_ANSWER_TTL, 0, 4>>
    \o MemOfU32(ip4_addr_get_u32(GW_IP))

\* A header rewrite that also sets RD.
DnsReplyHeader_WithRD(q) ==
    <<DnsByte(q, 0), DnsByte(q, 1)>>
    \o StoreU16(lwip_htons(32768 + 1024 + 256 + 128))
    \o StoreU16(lwip_htons(1))
    \o StoreU16(lwip_htons(1))
    \o StoreU16(0)
    \o StoreU16(0)

\* The header after the rewrite of flags and counts; the id is left as it is.
DnsReplyHeader(q) ==
    <<DnsByte(q, 0), DnsByte(q, 1)>>
    \o StoreU16(lwip_htons(32768 + 1024 + 128))
    \o StoreU16(lwip_htons(1))
    \o StoreU16(lwip_htons(1))
    \o StoreU16(0)
    \o StoreU16(0)

\* dns_msg[0 .. answer_ptr) as handed to dns_socket_sendto
DnsReply(q, question_ptr) ==
    [sent |-> TRUE,
     bytes |-> DnsReplyHeader(q)
               \o [i \in 1 .. (question_ptr - DNS_HEADER_SIZE) |-> DnsByte(q, DNS_HEADER_SIZE + i - 1)]
               \o DnsAnswer,
     dest |-> q.src_addr,
     port |-> q.src_port]

\* The whole callback: what it sends for the query q, if anything.
DnsProcessResult(q) ==
    IF DnsMsgLen(q) < DNS_HEADER_SIZE THEN NoDnsReply
    ELSE LET flags == lwip_ntohs(LoadU16(q, 2))
             question_count == lwip_ntohs(LoadU16(q, 4))
         IN  IF (flags \div 32768) % 2 # 0 THEN NoDnsReply
             ELSE IF (flags \div 2048) % 16 # 0 THEN NoDnsReply
             ELSE IF question_count < 1 THEN NoDnsReply
             ELSE LET question_ptr == SkipName(q, DNS_HEADER_SIZE)
                  IN  IF question_ptr = NULL THEN NoDnsReply
                      ELSE IF question_ptr - DNS_HEADER_SIZE > DNS_MAX_NAME THEN NoDnsReply
                      ELSE DnsReply(q, question_ptr + 4)

-----------------------------------------------------------------------------
(* Datagrams arriving on UDP/53 *)

DnsHeader(id, flags, qd, ar) == id \o flags \o qd \o <<0, 0, 0, 0>> \o ar

Label(n) == <<n>> \o [i \in 1 .. n |-> 97]

\* a, ab.c, www.example.com and the root
DnsNames ==
    {<<1, 97, 0>>,
     <<2, 97, 98, 1, 99, 0>>,
     <<3, 119, 119, 119, 7, 101, 120, 97, 109, 112, 108, 101, 3, 99, 111, 109, 0>>,
     <<0>>}

\* A IN, AAAA IN, ANY with class ANY
DnsTypes == {<<0, 1, 0, 1>>, <<0, 28, 0, 1>>, <<0, 255, 0, 255>>}

\* none, RD, RD and AD, TC and the reserved bit, every bit but QR and opcode
DnsQueryFlags == {<<0, 0>>, <<1, 0>>, <<1, 32>>, <<2, 64>>, <<7, 255>>}

DnsIds == {<<18, 52>>, <<0, 0>>, <<255, 255>>}

\* What may follow the first question: nothing, an EDNS OPT record, or a
\* second question.
DnsTrailers ==
    {<<>>, <<0, 0, 41, 16, 0, 0, 0, 0, 0, 0, 0>>, <<1, 98, 0, 0, 1, 0, 1>>}

DnsSources == {<<192, 168, 4, 16>>, <<192, 168, 4, 23>>}
DnsSourcePorts == {1024, 65535}

DnsStacks == {<<0>>, <<170, 1>>}

\* Standard queries with a complete first question.
CompleteQueries ==
    {DnsQuery(DnsHeader(id, f, qd, <<0, Len(tr) \div 11>>) \o n \o t \o tr, a, pt, <<0>>) :
        id \in DnsIds, f \in DnsQueryFlags, qd \in {<<0, 1>>, <<0, 2>>, <<1, 0>>},
        n \in DnsNames, t \in DnsTypes, tr \in DnsTrailers,
        a \in DnsSources, pt \in DnsSourcePorts}

ExampleQuery ==
    DnsHeader(<<18, 52>>, <<1, 0>>, <<0, 1>>, <<0, 0>>)
    \o <<3, 119, 119, 119, 7, 101, 120, 97, 109, 112, 108, 101, 3, 99, 111, 109, 0>>
    \o <<0, 1, 0, 1>>

\* Datagrams cut short: inside the header, after it, inside the name, and
\* inside qtype/qclass.
CutQueries ==
    {DnsQuery(SubSeq(ExampleQuery, 1, n), <<192, 168, 4, 16>>, 1024, st) :
        n \in {0, 11, 12, 14, 20, 29, 31, 32}, st \in DnsStacks}

\* Responses, other opcodes, no question, labels and names that are too long.
BadQueries ==
    {DnsQuery(DnsHeader(<<18, 52>>, f, qd, <<0, 0>>) \o n \o <<0, 1, 0, 1>>,
              <<192, 168, 4, 16>>, 1024, <<0>>) :
        f \in {<<128, 0>>, <<129, 128>>, <<8, 0>>, <<40, 0>>, <<120, 0>>, <<1, 0>>},
        qd \in {<<0, 0>>, <<0, 1>>},
        n \in {<<1, 97, 0>>,
               Label(64) \o <<0>>,
               <<192, 12>>,
               Label(63) \o Label(63) \o Label(63) \o Label(61) \o <<0>>,
               Label(63) \o Label(63) \o Label(63) \o Label(62) \o <<0>>}}

NoDnsQuery == DnsQuery(<<>>, ZeroIp, 0, <<0>>)

DnsInit ==
    /\ dnsIn = NoDnsQuery
    /\ dnsOut = NoDnsReply

\* One datagram through dns_server_process; dnsOut is the datagram it hands
\* to dns_socket_sendto.
DnsReceive(q) ==
    /\ dnsIn = NoDnsQuery
    /\ dnsIn' = q
    /\ dnsOut' = DnsProcessResult(q)
    /\ UNCHANGED notDnsVars

dns_server_process ==
    \/ \E q \in CompleteQueries : DnsReceive(q)
    \/ \E q \in CutQueries : DnsReceive(q)
    \/ \E q \in BadQueries : DnsReceive(q)

\* The callback has returned and the reply, if any, has left.
DnsDelivered ==
    /\ dnsIn # NoDnsQuery
    /\ dnsIn' = NoDnsQuery
    /\ dnsOut' = NoDnsReply
    /\ UNCHANGED notDnsVars

DnsNext == dns_server_process \/ DnsDelivered

-----------------------------------------------------------------------------
(* Properties of the DNS server *)

\* The 1-based position of the zero label that ends the name starting at
\* position i of the datagram, NULL if the datagram ends before it.
RECURSIVE NameEndsAt(_, _)
NameEndsAt(bytes, i) ==
    IF i > Len(bytes) THEN NULL
    ELSE IF bytes[i] = 0 THEN i
    ELSE NameEndsAt(bytes, i + 1 + bytes[i])

\* The length of header and first question (name, qtype, qclass) of a
\* datagram that holds all of them, NULL otherwise.
FirstQuestionEnd(bytes) ==
    LET e == NameEndsAt(bytes, 13)
    IN  IF e = NULL \/ e + 4 > Len(bytes) THEN NULL ELSE e + 4

\* C10: DNS reply content -- every reply goes to the query's source address
\* and port and consists of the query's id, the flags word with exactly QR,
\* AA and RA set, qdcount 1, ancount 1, nscount 0, arcount 0, the first
\* question's bytes as received, and the one answer C0 0C, type 1, class 1,
\* TTL 60, RDLENGTH 4, RDATA GW_IP.
C10_DnsReplyContent ==
    dnsOut.sent =>
        LET q == dnsIn.bytes
            r == dnsOut.bytes
            n == Len(dnsOut.bytes)
        IN  /\ dnsOut.dest = dnsIn.src_addr
            /\ dnsOut.port = dnsIn.src_port
            /\ n >= 12 + 16
            /\ SubSeq(r, 1, 2) = SubSeq(q, 1, 2)
            /\ SubSeq(r, 3, 12) = <<132, 128, 0, 1, 0, 1, 0, 0, 0, 0>>
            /\ FirstQuestionEnd(q) # NULL => n - 16 = FirstQuestionEnd(q)
            /\ \A i \in 13 .. (n - 16) : i <= Len(q) => r[i] = q[i]
            /\ SubSeq(r, n - 15, n) = <<192, 12, 0, 1, 0, 1, 0, 0, 0, 60, 0, 4, 192, 168, 4, 1>>

\* A reply to an AAAA query for www.example.com with RD and AD set, two
\* questions announced and an OPT record after the first.
C10_AaaaQueryAnswered ==
    /\ dnsOut.sent
    /\ SubSeq(dnsIn.bytes, 3, 6) = <<1, 32, 0, 2>>
    /\ SubSeq(dnsIn.bytes, 13, 16) = <<3, 119, 119, 119>>
    /\ SubSeq(dnsIn.bytes, 30, 33) = <<0, 28, 0, 1>>
    /\ Len(dnsIn.bytes) = 33 + 11
    /\ Len(dnsOut.bytes) = 33 + 16
    /\ dnsIn.src_port = 65535

\* A label of the name starting at position i announces more than 63 bytes.
RECURSIVE NameHasLongLabel(_, _)
NameHasLongLabel(bytes, i) ==
    IF i > Len(bytes) \/ bytes[i] = 0 THEN FALSE
    ELSE IF bytes[i] > 63 THEN TRUE
    ELSE NameHasLongLabel(bytes, i + 1 + bytes[i])

\* The name that starts after the header takes more than 255 bytes, its
\* length bytes and its zero label included.
NameTooLong(bytes) ==
    LET e == NameEndsAt(bytes, 13)
    IN  e # NULL /\ e - 12 > 255

\* The datagram is one the drop rules name.
DnsMustDrop(bytes) ==
    \/ Len(bytes) < 12
    \/ bytes[3] >= 128
    \/ (bytes[3] \div 8) % 16 # 0
    \/ bytes[5] * 256 + bytes[6] < 1
    \/ NameHasLongLabel(bytes, 13)
    \/ NameTooLong(bytes)

\* C11: DNS drop rules -- a datagram shorter than the header, with QR set,
\* with a non-zero opcode, with qdcount < 1, with a label longer than 63
\* bytes or with a name longer than 255 bytes produces no reply.
C11_DnsDropRules ==
    (dnsIn # NoDnsQuery /\ DnsMustDrop(dnsIn.bytes)) => ~dnsOut.sent

\* A standard query with one question, dropped only because its name is
\* 256 bytes long, each label within 63 bytes.
C11_LongNameDropped ==
    /\ dnsIn # NoDnsQuery
    /\ ~dnsOut.sent
    /\ Len(dnsIn.bytes) = 12 + 256 + 4
    /\ SubSeq(dnsIn.bytes, 3, 6) = <<1, 0, 0, 1>>
    /\ NameTooLong(dnsIn.bytes)
    /\ ~NameHasLongLabel(dnsIn.bytes, 13)

\* C12: DNS truncated question -- a standard query whose question is cut
\* short (no zero label within the received bytes, or fewer than 4 bytes
\* after the name) gets no reply, and every byte of a reply between header
\* and answer is a byte of the received query.
C12_TruncatedQuestionDropped ==
    /\ (dnsIn # NoDnsQuery /\ FirstQuestionEnd(dnsIn.bytes) = NULL) => ~dnsOut.sent
    /\ dnsOut.sent => Len(dnsOut.bytes) - 16 <= Len(dnsIn.bytes)

\* The reply scenario S4 asks for, with the flags word given as two bytes.
S4Reply(flags) ==
    <<18, 52>> \o flags \o <<0, 1, 0, 1, 0, 0, 0, 0>>
    \o SubSeq(ExampleQuery, 13, Len(ExampleQuery))
    \o <<192, 12, 0, 1, 0, 1, 0, 0, 0, 60, 0, 4, 192, 168, 4, 1>>

\* C13 as written: scenario S4 is answered with flags 0x8580.
C13_ScenarioS4 ==
    dnsIn.bytes = ExampleQuery => (dnsOut.sent /\ dnsOut.bytes = S4Reply(<<133, 128>>))

\* C13 amended: scenario S4 -- the query id 0x1234, flags 0x0100, qdcount 1,
\* www.example.com, qtype 1, qclass 1 is answered with the same id, flags
\* 0x8480 (QR, AA, RA), qdcount 1, ancount 1, the question, and the answer
\* C0 0C, type 1, class 1, TTL 60, RDLENGTH 4, RDATA C0 A8 04 01.
C13_ScenarioS4_Flags8480 ==
    dnsIn.bytes = ExampleQuery => (dnsOut.sent /\ dnsOut.bytes = S4Reply(<<132, 128>>))

\* The S4 query has been answered.
C13_S4Answered ==
    /\ dnsIn.bytes = ExampleQuery
    /\ dnsOut.sent
    /\ Len(dnsOut.bytes) = Len(ExampleQuery) + 16

-----------------------------------------------------------------------------
(* HTTP servers: connection life cycle *)

\* Connections are numbered in the order they are accepted.
MaxConns == 2
\* Data segments a client sends on one connection.
MaxRequests == 2
\* Lengths of the response headers and of the page body, in segments.
HeaderLen == 1
BodyLen == 2

Conns == 1 .. MaxConns

Servers == {"network_manager", "web_server"}

\* The error codes the stack passes to the error callback.
StackErrors == {"ERR_ABRT", "ERR_RST", "ERR_CLSD"}

NoCallbacks == [arg |-> FALSE, recv |-> FALSE, sent |-> FALSE, poll |-> FALSE, err |-> FALSE]

NoState == [mem |-> "none", frees |-> 0, sent_len |-> 0, header_len |-> 0, result_len |-> 0]

\* calloc(1, sizeof(TCP_CONNECT_STATE_T))
FreshState == [NoState EXCEPT !.mem = "live"]

\* free(con_state): the fields are gone with the memory
Freed(s) == [NoState EXCEPT !.mem = "freed", !.frees = IF s.frees < 2 THEN s.frees + 1 ELSE 2]

NoCallback == [fn |-> "none", conn |-> 0, trigger |-> "none"]

Ran(fn, c, trigger) == [fn |-> fn, conn |-> c, trigger |-> trigger]

\* The stack calls a callback of a connection while it has the handle, with
\* whatever is registered on the handle at that moment.
Dispatches(c) == phase # "ended" /\ pcb[c] \in {"open", "closing"}

\* The callback argument points to memory that has been freed.
Dangling(c) == cbs[c].arg /\ con_state[c].mem = "freed"

\* A callback entered with a dangling argument: the read of the freed state
\* is all that is recorded.
EnteredDangling(fn, c) ==
    /\ Dangling(c)
    /\ uaf' = TRUE
    /\ last' = Ran(fn, c, "none")
    /\ UNCHANGED <<server, phase, pcb, cbs, con_state, unacked, reqs, misuse>>

HttpInit ==
    /\ server \in Servers
    /\ phase = "running"
    /\ pcb = [c \in Conns |-> "none"]
    /\ cbs = [c \in Conns |-> NoCallbacks]
    /\ con_state = [c \in Conns |-> NoState]
    /\ unacked = [c \in Conns |-> 0]
    /\ reqs = [c \in Conns |-> 0]
    /\ last = NoCallback
    /\ uaf = FALSE
    /\ misuse = FALSE

-----------------------------------------------------------------------------
(* network_manager.c *)

\* A teardown that leaves the callbacks on the handle.
Unregistered_Kept(cb) == cb

\* tcp_arg(pcb, NULL); tcp_poll(pcb, NULL, 0); tcp_sent(pcb, NULL);
\* tcp_recv(pcb, NULL); tcp_err(pcb, NULL)
Unregistered(cb) == NoCallbacks

\* tcp_close_client_connection(con_state, client_pcb, close_err) with a
\* non-null client_pcb: callbacks cleared, then tcp_close (tcp_abort if it
\* fails), then free.  released: the stack had released the handle before.
\* queued: the bytes the stack holds for the connection at the call; after
\* tcp_close it goes on sending them, after tcp_abort it has dropped them.
tcp_close_client_connection(c, close_ok, released, queued) ==
    /\ cbs' = [cbs EXCEPT ![c] = Unregistered(@)]
    /\ pcb' = [pcb EXCEPT ![c] = IF released THEN "gone"
                                 ELSE IF close_ok THEN "closing" ELSE "aborted"]
    /\ misuse' = (misuse \/ released)
    /\ con_state' = [con_state EXCEPT ![c] = Freed(@)]
    /\ unacked' = [unacked EXCEPT ![c] = IF close_ok /\ ~released THEN queued ELSE 0]

tcp_server_accept(c) ==
    /\ UNCHANGED notHttpVars
    /\ server = "network_manager"
    /\ phase # "ended"
    /\ pcb[c] = "none"
    /\ \A d \in Conns : d < c => pcb[d] # "none"
    /\ \E calloc_ok \in BOOLEAN :
        IF calloc_ok
        THEN /\ con_state' = [con_state EXCEPT ![c] = FreshState]
             /\ cbs' = [cbs EXCEPT ![c] = [arg |-> TRUE, recv |-> TRUE, sent |-> TRUE,
                                           poll |-> TRUE, err |-> TRUE]]
             /\ pcb' = [pcb EXCEPT ![c] = "open"]
        ELSE /\ pcb' = [pcb EXCEPT ![c] = "aborted"]
             /\ UNCHANGED <<con_state, cbs>>
    /\ last' = Ran("accept", c, "none")
    /\ UNCHANGED <<server, phase, unacked, reqs, uaf, misuse>>

\* What a segment holds: "GET / ...", "GET /other ...", anything else; or
\* no segment at all (the peer has closed).
RecvEvents == {"get_root", "get_other", "not_get", "fin"}

\* The body of tcp_server_recv.
RecvRequest(c, ev, hdr_ok, body_ok, close_ok) ==
    LET header_len == HeaderLen
        result_len == IF ev = "get_root" THEN BodyLen ELSE 0
    IN  IF ev = "fin"
        THEN /\ tcp_close_client_connection(c, close_ok, FALSE, unacked[c])
             /\ last' = Ran("recv", c, "peer_close")
             /\ UNCHANGED reqs
        ELSE /\ reqs[c] < MaxRequests
             /\ reqs' = [reqs EXCEPT ![c] = @ + 1]
             /\ IF ev = "not_get"
                THEN /\ last' = Ran("recv", c, "none")
                     /\ UNCHANGED <<pcb, cbs, con_state, unacked, misuse>>
                ELSE IF ~hdr_ok \/ (result_len > 0 /\ ~body_ok)
                THEN /\ tcp_close_client_connection(c, close_ok, FALSE,
                                    unacked[c] + (IF hdr_ok THEN header_len ELSE 0))
                     /\ last' = Ran("recv", c, "write_fail")
                ELSE /\ con_state' = [con_state EXCEPT ![c].sent_len = 0,
                                                       ![c].header_len = header_len,
                                                       ![c].result_len = result_len]
                     /\ unacked' = [unacked EXCEPT ![c] = @ + header_len + result_len]
                     /\ last' = Ran("recv", c, "none")
                     /\ UNCHANGED <<pcb, cbs, misuse>>

tcp_server_recv(c) ==
    /\ UNCHANGED notHttpVars
    /\ server = "network_manager"
    /\ Dispatches(c)
    /\ cbs[c].recv
    /\ \/ EnteredDangling("recv", c)
       \/ /\ ~Dangling(c)
          /\ \E ev \in RecvEvents : \E hdr_ok, body_ok, close_ok \in BOOLEAN :
                RecvRequest(c, ev, hdr_ok, body_ok, close_ok)
          /\ UNCHANGED <<server, phase, uaf>>

tcp_server_sent(c) ==
    /\ UNCHANGED notHttpVars
    /\ server = "network_manager"
    /\ Dispatches(c)
    /\ cbs[c].sent
    /\ unacked[c] > 0
    /\ \/ EnteredDangling("sent", c)
       \/ /\ ~Dangling(c)
          /\ \E len \in 1 .. unacked[c] : \E close_ok \in BOOLEAN :
                LET sent_len == con_state[c].sent_len + len
                IN  IF sent_len >= con_state[c].header_len + con_state[c].result_len
                    THEN /\ tcp_close_client_connection(c, close_ok, FALSE, unacked[c] - len)
                         /\ last' = Ran("sent", c, "full_ack")
                    ELSE /\ con_state' = [con_state EXCEPT ![c].sent_len = sent_len]
                         /\ unacked' = [unacked EXCEPT ![c] = @ - len]
                         /\ last' = Ran("sent", c, "none")
                         /\ UNCHANGED <<pcb, cbs, misuse>>
          /\ UNCHANGED <<server, phase, reqs, uaf>>

tcp_server_poll(c) ==
    /\ UNCHANGED notHttpVars
    /\ server = "network_manager"
    /\ Dispatches(c)
    /\ cbs[c].poll
    /\ \/ EnteredDangling("poll", c)
       \/ /\ ~Dangling(c)
          /\ \E close_ok \in BOOLEAN : tcp_close_client_connection(c, close_ok, FALSE, unacked[c])
          /\ last' = Ran("poll", c, "poll")
          /\ UNCHANGED <<server, phase, reqs, uaf>>

\* The stack releases the handle and then calls tcp_server_err(arg, err).
tcp_server_err(c) ==
    /\ UNCHANGED notHttpVars
    /\ server = "network_manager"
    /\ Dispatches(c)
    /\ cbs[c].err
    /\ \E err \in StackErrors :
        IF err # "ERR_ABRT" /\ cbs[c].arg
        THEN /\ tcp_close_client_connection(c, FALSE, TRUE, 0)
             /\ uaf' = (uaf \/ Dangling(c))
        ELSE /\ pcb' = [pcb EXCEPT ![c] = "gone"]
             /\ UNCHANGED <<cbs, con_state, unacked, misuse, uaf>>
    /\ last' = Ran("err", c, "err")
    /\ UNCHANGED <<server, phase, reqs>>

-----------------------------------------------------------------------------
(* web_server.c *)

\* close_cli(pcb, st) with a non-null pcb: callbacks cleared, tcp_close (its
\* result is not looked at: if it fails the handle stays as it is), free.
close_cli(c, close_ok) ==
    /\ cbs' = [cbs EXCEPT ![c] = Unregistered(@)]
    /\ pcb' = [pcb EXCEPT ![c] = IF close_ok THEN "closing" ELSE @]
    /\ con_state' = [con_state EXCEPT ![c] = Freed(@)]
    /\ unacked' = [unacked EXCEPT ![c] = 0]

\* No error callback is registered.
on_accept(c) ==
    /\ UNCHANGED notHttpVars
    /\ server = "web_server"
    /\ phase # "ended"
    /\ pcb[c] = "none"
    /\ \A d \in Conns : d < c => pcb[d] # "none"
    /\ \E calloc_ok \in BOOLEAN :
        IF calloc_ok
        THEN /\ con_state' = [con_state EXCEPT ![c] = FreshState]
             /\ cbs' = [cbs EXCEPT ![c] = [arg |-> TRUE, recv |-> TRUE, sent |-> TRUE,
                                           poll |-> TRUE, err |-> FALSE]]
             /\ pcb' = [pcb EXCEPT ![c] = "open"]
        ELSE /\ pcb' = [pcb EXCEPT ![c] = "aborted"]
             /\ UNCHANGED <<con_state, cbs>>
    /\ last' = Ran("accept", c, "none")
    /\ UNCHANGED <<server, phase, unacked, reqs, uaf, misuse>>

\* Every segment is answered with the page; the results of the two
\* tcp_write calls are not looked at.
on_recv(c) ==
    /\ UNCHANGED notHttpVars
    /\ server = "web_server"
    /\ Dispatches(c)
    /\ cbs[c].recv
    /\ \/ EnteredDangling("recv", c)
       \/ /\ ~Dangling(c)
          /\ \/ /\ \E close_ok \in BOOLEAN : close_cli(c, close_ok)
                /\ last' = Ran("recv", c, "peer_close")
                /\ UNCHANGED reqs
             \/ /\ reqs[c] < MaxRequests
                /\ reqs' = [reqs EXCEPT ![c] = @ + 1]
                /\ con_state' = [con_state EXCEPT ![c].sent_len = 0,
                                                  ![c].header_len = HeaderLen,
                                                  ![c].result_len = BodyLen]
                /\ \E hdr_ok, body_ok \in BOOLEAN :
                      unacked' = [unacked EXCEPT ![c] = @ + (IF hdr_ok THEN HeaderLen ELSE 0)
                                                          + (IF body_ok THEN BodyLen ELSE 0)]
                /\ last' = Ran("recv", c, IF unacked'[c] < unacked[c] + HeaderLen + BodyLen
                                          THEN "write_fail" ELSE "none")
                /\ UNCHANGED <<pcb, cbs>>
          /\ UNCHANGED <<server, phase, uaf, misuse>>

on_sent(c) ==
    /\ UNCHANGED notHttpVars
    /\ server = "web_server"
    /\ Dispatches(c)
    /\ cbs[c].sent
    /\ unacked[c] > 0
    /\ \/ EnteredDangling("sent", c)
       \/ /\ ~Dangling(c)
          /\ \E len \in 1 .. unacked[c] : \E close_ok \in BOOLEAN :
                LET sent == con_state[c].sent_len + len
                IN  IF sent >= con_state[c].header_len + con_state[c].result_len
                    THEN /\ close_cli(c, close_ok)
                         /\ last' = Ran("sent", c, "full_ack")
                    ELSE /\ con_state' = [con_state EXCEPT ![c].sent_len = sent]
                         /\ unacked' = [unacked EXCEPT ![c] = @ - len]
                         /\ last' = Ran("sent", c, "none")
                         /\ UNCHANGED <<pcb, cbs>>
          /\ UNCHANGED <<server, phase, reqs, uaf, misuse>>

on_poll(c) ==
    /\ UNCHANGED notHttpVars
    /\ server = "web_server"
    /\ Dispatches(c)
    /\ cbs[c].poll
    /\ \/ EnteredDangling("poll", c)
       \/ /\ ~Dangling(c)
          /\ \E close_ok \in BOOLEAN : close_cli(c, close_ok)
          /\ last' = Ran("poll", c, "poll")
          /\ UNCHANGED <<server, phase, reqs, uaf, misuse>>

-----------------------------------------------------------------------------
(* The stack and the supervisors *)

\* A connection fails (reset, retransmission timeout) while no error
\* callback is registered on its handle: the stack releases the handle and
\* calls nothing.
StackReleases(c) ==
    /\ UNCHANGED notHttpVars
    /\ phase # "ended"
    /\ pcb[c] = "open"
    /\ ~cbs[c].err
    /\ pcb' = [pcb EXCEPT ![c] = "gone"]
    /\ UNCHANGED <<server, phase, cbs, con_state, unacked, reqs, last, uaf, misuse>>

\* 'd' on the console: state->complete = true
key_pressed_func ==
    /\ UNCHANGED notHttpVars
    /\ server = "network_manager"
    /\ phase = "running"
    /\ phase' = "complete"
    /\ UNCHANGED <<server, pcb, cbs, con_state, unacked, reqs, last, uaf, misuse>>

\* main after its loop: network_manager_deinit closes the listening handle
\* only, then cyw43_arch_deinit shuts the stack down.
network_manager_deinit ==
    /\ UNCHANGED notHttpVars
    /\ server = "network_manager"
    /\ phase = "complete"
    /\ phase' = "ended"
    /\ UNCHANGED <<server, pcb, cbs, con_state, unacked, reqs, last, uaf, misuse>>

\* 'q' on the console: net.shutdown = true
wifi_ap_request_shutdown ==
    /\ UNCHANGED notHttpVars
    /\ server = "web_server"
    /\ phase = "running"
    /\ phase' = "complete"
    /\ UNCHANGED <<server, pcb, cbs, con_state, unacked, reqs, last, uaf, misuse>>

\* main after its loop: web_server_stop closes the listening handle only,
\* then wifi_ap_deinit shuts the stack down.
web_server_stop ==
    /\ UNCHANGED notHttpVars
    /\ server = "web_server"
    /\ phase = "complete"
    /\ phase' = "ended"
    /\ UNCHANGED <<server, pcb, cbs, con_state, unacked, reqs, last, uaf, misuse>>

HttpNext ==
    \/ \E c \in Conns : tcp_server_accept(c)
    \/ \E c \in Conns : tcp_server_recv(c)
    \/ \E c \in Conns : tcp_server_sent(c)
    \/ \E c \in Conns : tcp_server_poll(c)
    \/ \E c \in Conns : tcp_server_err(c)
    \/ \E c \in Conns : on_accept(c)
    \/ \E c \in Conns : on_recv(c)
    \/ \E c \in Conns : on_sent(c)
    \/ \E c \in Conns : on_poll(c)
    \/ \E c \in Conns : StackReleases(c)
    \/ key_pressed_func
    \/ network_manager_deinit
    \/ wifi_ap_request_shutdown
    \/ web_server_stop

\* The stack's timers call the poll callback of every connection it holds,
\* and main leaves its loop once shutdown has been asked for.
HttpFairness ==
    /\ \A c \in Conns : WF_vars(tcp_server_poll(c))
    /\ \A c \in Conns : WF_vars(on_poll(c))
    /\ WF_vars(network_manager_deinit)
    /\ WF_vars(web_server_stop)

-----------------------------------------------------------------------------
(* Properties of the HTTP servers *)

\* C7: the connection state allocated on accept is eventually freed,
\* whatever follows the accept (requests, acknowledgements, peer close, poll
\* timer, error callback with any code, shutdown of the program), and it is
\* never freed twice.
C7_RoundTripClosure ==
    /\ \A c \in Conns : [](con_state[c].mem = "live" => <>(con_state[c].mem = "freed"))
    /\ [](\A c \in Conns : con_state[c].frees <= 1)

\* C8: when a callback has met a teardown trigger (full acknowledgement, peer
\* close, poll, failed tcp_write, error callback with any code), the
\* connection is closed and its state freed by the time the callback returns.
C8_TeardownTriggers ==
    last.trigger # "none" =>
        /\ con_state[last.conn].mem = "freed"
        /\ pcb[last.conn] # "open"

\* C9: no callback is entered with a pointer to freed connection state: a
\* freed state has no callback and no argument left on its handle.
C9_NoCallbackAfterFree ==
    /\ ~uaf
    /\ \A c \in Conns : con_state[c].mem = "freed" => cbs[c] = NoCallbacks

\* A state freed on full acknowledgement while the stack still holds the
\* handle to finish the close.
C9_FreedWhileHandleCloses ==
    \E c \in Conns :
        /\ last = Ran("sent", c, "full_ack")
        /\ con_state[c].mem = "freed"
        /\ pcb[c] = "closing"

-----------------------------------------------------------------------------
(* HTTP server of network_manager.c: requests and pages *)

\* Requests served in one run.
MaxServed == 3

HTTP_GET == "GET"

\* sizeof(con_state->headers), sizeof(con_state->result) and
\* sizeof(alarm_command_str)
HEADERS_SIZE == 128
RESULT_SIZE == 1500
ALARM_COMMAND_SIZE == 4

\* The format string of the page, as the literal text before, between and
\* after its five %s.
ALARM_PAGE_BODY ==
    <<"<html><head><title>Controle de Alarme</title><meta name=\"vi" \o
       "ewport\" content=\"width=device-width, initial-scale=1.0\"><" \o
       "/head><body><style>body{font-family: Arial, sans-serif; text" \o
       "-align: center; margin-top: 50px;} h1{color: #333;} h2{color" \o
       ": #444; font-size: 1.2em; margin-top: 0px;} p{color: #555;} " \o
       ".button {display: inline-block; padding: 15px 25px; font-siz" \o
       "e: 20px; cursor: pointer; text-align: center; text-decoratio" \o
       "n: none; outline: none; color: #fff; border: none; border-ra" \o
       "dius: 15px; box-shadow: 0 9px #999;} .button-on {background-" \o
       "color: #4CAF50;} .button-on:hover {background-color: #3e8e41" \o
       "} .button-off {background-color: #f44336;} .button-off:hover" \o
       " {background-color: #da190b} .status {font-weight: bold; fon" \o
       "t-size: 22px;} .status-on {color: #f44336;} .status-off {col" \o
       "or: #4CAF50;}</style><h1>Simulador Portatil de Alarme</h1><h" \o
       "2>Atividade 08 - Manoel</h2><p>Estado do Alarme: <strong cla" \o
       "ss=\"status status-",
      "\">",
      "</strong></p><p><a href=\"/?alarm=",
      "\" class=\"button button-",
      "\">",
      " Alarme</a></p></body></html>" >>

\* s[i], the characters counted from 1; "" past the end (the terminating NUL)
Chr(s, i) == IF i >= 1 /\ i <= Len(s) THEN SubSeq(s, i, i) ELSE ""

\* The C string that starts at s[i]
StrFrom(s, i) == SubSeq(s, i, Len(s))

\* strncmp(a, b, n) == 0 for strings without NUL
strncmp_eq(a, b, n) ==
    IF Len(a) >= n /\ Len(b) >= n THEN SubSeq(a, 1, n) = SubSeq(b, 1, n) ELSE a = b

\* The least position in S
First(S) == CHOOSE k \in S : \A j \in S : k <= j

\* while (*p == ' ') p++
SkipSpaces(s, i) == First({k \in i .. Len(s) + i : Chr(s, k) # " "})

\* strchr(s + i, c): the position of the first c at or after s[i], NULL if
\* there is none
strchr(s, i, c) ==
    LET hits == {k \in i .. Len(s) : Chr(s, k) = c}
    IN  IF hits = {} THEN NULL ELSE First(hits)

\* isspace
WhiteSpace == {" ", "\t", "\n", "\r"}

SkipWhiteSpace(s, i) == First({k \in i .. Len(s) + i : Chr(s, k) \notin WhiteSpace})

\* The end of the run of non-space characters that starts at s[i]
WordEnd(s, i) == First({k \in i .. Len(s) + i : k > Len(s) \/ Chr(s, k) \in WhiteSpace})

\* sscanf(params, "alarm=%s", alarm_command_str): the number of
\* conversions and the string stored; the store is of Len(word) + 1 bytes
\* whatever the size of the destination.
sscanf_alarm(params) ==
    IF ~strncmp_eq("alarm=", params, 6) \/ Len(params) < 6
    THEN [n |-> 0, word |-> ""]
    ELSE LET b == SkipWhiteSpace(params, 7)
             e == WordEnd(params, b)
         IN  IF e = b THEN [n |-> NULL, word |-> ""]
             ELSE [n |-> 1, word |-> SubSeq(params, b, e - 1)]

Digit(d) == SubSeq("0123456789", d + 1, d + 1)

\* printf's %d of a number that is not negative
RECURSIVE DecimalOf(_)
DecimalOf(n) == IF n < 10 THEN Digit(n) ELSE DecimalOf(n \div 10) \o Digit(n % 10)

\* ipaddr_ntoa
ipaddr_ntoa(ip) ==
    DecimalOf(ip[1]) \o "." \o DecimalOf(ip[2]) \o "." \o DecimalOf(ip[3]) \o "." \o DecimalOf(ip[4])

\* What snprintf(buf, size, ...) leaves in buf for the full text s, and the
\* bytes it writes, NUL included; its return value is Len(s).
Stored(s, size) == IF Len(s) < size THEN s ELSE SubSeq(s, 1, size - 1)

\* alarm_control_set_active: the state and the outputs (display, LEDs,
\* buzzer) change only if the value does.
alarm_control_set_active(alarm, active) ==
    IF alarm.active # active
    THEN [active |-> active, outputs |-> alarm.outputs + 1]
    ELSE alarm

\* A command interpretation in which "on" and "off" both toggle.
AlarmCommand_Toggle(word, alarm) ==
    IF word \in {"on", "off"}
    THEN [active |-> ~alarm.active, outputs |-> alarm.outputs + 1]
    ELSE alarm

\* http_generate_page_content, the strcmp chain on alarm_command_str
AlarmCommand(word, alarm) ==
    IF word = "on"
    THEN IF ~alarm.active THEN alarm_control_set_active(alarm, TRUE) ELSE alarm
    ELSE IF word = "off"
    THEN IF alarm.active THEN alarm_control_set_active(alarm, FALSE) ELSE alarm
    ELSE alarm

current_status_str(is_active) == IF is_active THEN "LIGADO" ELSE "DESLIGADO"
status_class_suffix(is_active) == IF is_active THEN "on" ELSE "off"
next_action_param(is_active) == IF is_active THEN "off" ELSE "on"
\* A button labelled with what the alarm is, not with what it does.
button_text_AsState(is_active) == IF is_active THEN "Ligar" ELSE "Desligar"
button_text(is_active) == IF is_active THEN "Desligar" ELSE "Ligar"
button_class_suffix(is_active) == IF is_active THEN "off" ELSE "on"

\* The text of ALARM_PAGE_BODY with its five %s replaced, in order.
PageText(a, b, c, d, e) ==
    ALARM_PAGE_BODY[1] \o a \o ALARM_PAGE_BODY[2] \o b \o ALARM_PAGE_BODY[3] \o c
    \o ALARM_PAGE_BODY[4] \o d \o ALARM_PAGE_BODY[5] \o e \o ALARM_PAGE_BODY[6]

\* No query string: params is NULL.
NoParams == [given |-> FALSE, str |-> ""]

\* http_generate_page_content(params, result, max_result_len): the alarm
\* after the command, the full text of the page, and the number of bytes
\* sscanf stored in alarm_command_str (0: none).
http_generate_page_content(params, alarm) ==
    LET scan == IF params.given THEN sscanf_alarm(params.str) ELSE [n |-> 0, word |-> ""]
        after == IF scan.n = 1 THEN AlarmCommand(scan.word, alarm) ELSE alarm
        is_active == after.active
    IN  [alarm |-> after,
         text |-> PageText(status_class_suffix(is_active), current_status_str(is_active),
                           next_action_param(is_active), button_class_suffix(is_active),
                           button_text(is_active)),
         command_bytes |-> IF scan.n = 1 THEN Len(scan.word) + 1 ELSE 0]

\* HTTP_RESPONSE_HEADERS with its two %d
ResponseHeaders(status, content_length) ==
    "HTTP/1.1 " \o DecimalOf(status) \o " OK\nContent-Length: " \o DecimalOf(content_length)
    \o "\nContent-Type: text/html; charset=utf-8\nConnection: close\n\n"

\* HTTP_RESPONSE_REDIRECT_TO_ROOT with its %s
RedirectToRoot(host) == "HTTP/1.1 302 Redirect\nLocation: http://" \o host \o "/\n\n"

\* A length test that lets nothing through.
Overflows_Always(len, size) == TRUE

\* len >= sizeof(buffer) - 1
Overflows(len, size) == len >= size - 1

\* What tcp_close_client_connection returns
CloseCode(close_ok, close_err) == IF close_ok THEN close_err ELSE "ERR_ABRT"

\* The request line as tcp_server_recv splits it, from the first
\* HEADERS_SIZE - 1 bytes of the segment.
RequestSplit(req) ==
    LET copy_len == IF Len(req) > HEADERS_SIZE - 1 THEN HEADERS_SIZE - 1 ELSE Len(req)
        headers == SubSeq(req, 1, copy_len)
        start == SkipSpaces(headers, Len(HTTP_GET) + 1)
        http_version_start == strchr(headers, start, " ")
        full == IF http_version_start = NULL THEN StrFrom(headers, start)
                ELSE SubSeq(headers, start, http_version_start - 1)
        mark == strchr(full, 1, "?")
    IN  [copy_len |-> copy_len,
         is_get |-> strncmp_eq(HTTP_GET, headers, Len(HTTP_GET)),
         actual_path |-> IF mark = NULL THEN full ELSE SubSeq(full, 1, mark - 1),
         params |-> IF mark = NULL THEN NoParams
                    ELSE [given |-> TRUE, str |-> StrFrom(full, mark + 1)]]

\* What tcp_server_recv has done for a request: which response it built,
\* the lengths snprintf returned, the page text in con_state->result, the
\* bytes handed to tcp_write, the bytes acknowledged, the value returned by
\* tcp_close_client_connection ("no": the connection stays open), the bytes
\* written to each buffer, and whether the program stopped.  write_err is
\* ERR_MEM when the close is due to a tcp_write that failed.
\* freed counts the calls of pbuf_free(p); returned is the value
\* tcp_server_recv returns.
Reply(kind, header_len, result_len, result, handed, closed, wrote, crashed) ==
    [kind |-> kind, header_len |-> header_len, result_len |-> result_len, result |-> result,
     handed |-> handed, sent_len |-> 0, closed |-> closed, wrote |-> wrote, crashed |-> crashed,
     write_err |-> "ERR_OK", freed |-> IF crashed THEN 0 ELSE 1,
     returned |-> IF closed = "no" THEN "ERR_OK" ELSE closed]

NothingWritten == [headers |-> 0, result |-> 0, command |-> 0]

NothingDone == [Reply("none", 0, 0, "", "", "no", NothingWritten, FALSE) EXCEPT !.freed = 0]

\* tcp_server_recv from the length test of the headers on.
SendReply(kind, header_text, result_len, result, wrote, hdr_ok, body_ok, close_ok) ==
    LET header_len == Len(header_text)
        headers == Stored(header_text, HEADERS_SIZE)
        w == [wrote EXCEPT !.headers = IF header_len < HEADERS_SIZE THEN header_len + 1
                                       ELSE HEADERS_SIZE]
    IN  IF Overflows(header_len, HEADERS_SIZE)
        THEN Reply(kind, header_len, result_len, result, "", CloseCode(close_ok, "ERR_CLSD"), w, FALSE)
        ELSE IF ~hdr_ok
        THEN [Reply(kind, header_len, result_len, result, "",
                    CloseCode(close_ok, "ERR_MEM"), w, FALSE) EXCEPT !.write_err = "ERR_MEM"]
        ELSE IF result_len > 0 /\ ~body_ok
        THEN [Reply(kind, header_len, result_len, result, headers,
                    CloseCode(close_ok, "ERR_MEM"), w, FALSE) EXCEPT !.write_err = "ERR_MEM"]
        ELSE Reply(kind, header_len, result_len, result,
                   headers \o SubSeq(result, 1, result_len), "no", w, FALSE)

\* tcp_server_recv(arg, pcb, p, err) for a segment with the bytes req.
\* hdr_ok and body_ok: the tcp_write calls succeed; close_ok: tcp_close
\* does; survives: the program goes on after a store past the end of
\* alarm_command_str.
RecvReply(req, alarm, hdr_ok, body_ok, close_ok, survives) ==
    LET split == RequestSplit(req)
        wrote == [NothingWritten EXCEPT !.headers = split.copy_len + 1]
    IN  IF ~split.is_get
        THEN [alarm |-> alarm, reply |-> [NothingDone EXCEPT !.wrote = wrote, !.freed = 1]]
        ELSE IF split.actual_path = "/"
        THEN LET page == http_generate_page_content(split.params, alarm)
                 result_len == Len(page.text)
                 result == Stored(page.text, RESULT_SIZE)
                 w == [wrote EXCEPT !.command = page.command_bytes,
                                    !.result = IF result_len < RESULT_SIZE THEN result_len + 1
                                               ELSE RESULT_SIZE]
             IN  IF page.command_bytes > ALARM_COMMAND_SIZE /\ ~survives
                 THEN [alarm |-> alarm,
                       reply |-> Reply("none", 0, 0, "", "", "no",
                                       [wrote EXCEPT !.command = page.command_bytes], TRUE)]
                 ELSE IF Overflows(result_len, RESULT_SIZE)
                 THEN [alarm |-> page.alarm,
                       reply |-> Reply("page", 0, result_len, result, "",
                                       CloseCode(close_ok, "ERR_CLSD"), w, FALSE)]
                 ELSE [alarm |-> page.alarm,
                       reply |-> SendReply("page", ResponseHeaders(200, result_len), result_len,
                                           result, w, hdr_ok, body_ok, close_ok)]
        ELSE [alarm |-> alarm,
              reply |-> SendReply("redirect", RedirectToRoot(ipaddr_ntoa(GW_IP)), 0, "",
                                  wrote, hdr_ok, body_ok, close_ok)]

-----------------------------------------------------------------------------
(* Segments arriving on TCP/80 *)

\* n times the letter a, for n up to 160
Pad(n) ==
    LET a40 == "aaaaaaaaaaaaaaaaaaaaaaaaaaaaaaaaaaaaaaaa"
    IN  SubSeq(a40 \o a40 \o a40 \o a40, 1, n)

EndOfHeaders == " HTTP/1.1\r\n\r\n"

\* Request targets sent after "GET " and followed by " HTTP/1.1".
Targets ==
    {"/", "/?alarm=on", "/?alarm=off", "/?x=1&alarm=on", "/?alarm=on&x=1", "/?x=1&alarm=off",
     "/?alarm=abcd", "/?alarm=", "/?alarm", "/?alarm=%6Fn", "/favicon.ico",
     "/index.html?alarm=on", "/?alarm=" \o Pad(150), "/" \o Pad(150)}

\* Requests that are no well-formed GET request line.
OddRequests ==
    {"GET/ HTTP/1.1\r\n\r\n", "GET/?alarm=on HTTP/1.1\r\n\r\n", "GETTY / HTTP/1.1\r\n\r\n",
     "GET  /  HTTP/1.1\r\n\r\n", "GET /\r\n\r\n", "GET /?alarm=on\r\n\r\n",
     "POST /?alarm=on HTTP/1.1\r\n\r\n", "get / HTTP/1.1\r\n\r\n", "HEAD / HTTP/1.1\r\n\r\n", "GE"}

Requests == {"GET " \o t \o EndOfHeaders : t \in Targets} \cup OddRequests

\* What can go wrong while a segment is served: a tcp_write refused for lack
\* of memory, a tcp_close refused, the program stopped by a store past the
\* end of alarm_command_str.
Faults ==
    {{}, {"tcp_write headers"}, {"tcp_write result"}, {"tcp_close"},
     {"tcp_write headers", "tcp_close"}, {"tcp_write result", "tcp_close"}, {"stopped"}}

NoPrevious == [request |-> "", result |-> "", active |-> FALSE, outputs |-> 0]

PageInit ==
    /\ s_alarm_active = FALSE
    /\ outputs = 0
    /\ served = 0
    /\ request = ""
    /\ prev = NoPrevious
    /\ reply = NothingDone

\* The bytes handed to tcp_write and not acknowledged yet.
Unacked == IF reply.closed = "no" THEN Len(reply.handed) - reply.sent_len ELSE 0

\* One segment through tcp_server_recv, once the response to the one before
\* has been acknowledged.
tcp_server_recv_segment(req) ==
    /\ served < MaxServed
    /\ ~reply.crashed
    /\ Unacked = 0
    /\ \E fault \in Faults :
        LET did == RecvReply(req, [active |-> s_alarm_active, outputs |-> outputs],
                             "tcp_write headers" \notin fault, "tcp_write result" \notin fault,
                             "tcp_close" \notin fault, "stopped" \notin fault)
        IN  /\ s_alarm_active' = did.alarm.active
            /\ outputs' = did.alarm.outputs
            /\ reply' = did.reply
    /\ served' = served + 1
    /\ request' = req
    /\ prev' = [request |-> request, result |-> reply.result,
                active |-> s_alarm_active, outputs |-> outputs]
    /\ UNCHANGED notPageVars

\* tcp_server_sent(arg, pcb, len) on the connection of the last response
tcp_server_sent_segment ==
    /\ ~reply.crashed
    /\ Unacked > 0
    /\ \E len \in {reply.header_len, Unacked} : \E close_ok \in BOOLEAN :
        /\ len = Unacked \/ reply.sent_len = 0
        /\ LET sent_len == reply.sent_len + len
           IN  reply' = [reply EXCEPT !.sent_len = sent_len,
                                      !.closed = IF sent_len >= reply.header_len + reply.result_len
                                                 THEN CloseCode(close_ok, "ERR_OK") ELSE @]
    /\ UNCHANGED <<s_alarm_active, outputs, served, request, prev, notPageVars>>

PageNext ==
    \/ \E req \in Requests : tcp_server_recv_segment(req)
    \/ tcp_server_sent_segment

-----------------------------------------------------------------------------
(* Properties of the HTTP requests and pages *)

StartsWith(s, prefix) == Len(s) >= Len(prefix) /\ SubSeq(s, 1, Len(prefix)) = prefix

Contains(s, part) ==
    \E k \in 1 .. (Len(s) - Len(part) + 1) : SubSeq(s, k, k + Len(part) - 1) = part

\* The request-target of a request that starts with "GET ": what stands
\* between the spaces after GET and the next space.
Target(req) ==
    LET b == First({k \in 4 .. Len(req) + 4 : Chr(req, k) # " "})
        e == First({k \in b .. Len(req) + b : k > Len(req) \/ Chr(req, k) = " "})
    IN  SubSeq(req, b, e - 1)

TargetPath(req) ==
    LET t == Target(req)
        m == {k \in 1 .. Len(t) : Chr(t, k) = "?"}
    IN  IF m = {} THEN t ELSE SubSeq(t, 1, First(m) - 1)

TargetQuery(req) ==
    LET t == Target(req)
        m == {k \in 1 .. Len(t) : Chr(t, k) = "?"}
    IN  IF m = {} THEN "" ELSE SubSeq(t, First(m) + 1, Len(t))

\* The last request has changed neither the alarm nor its outputs.
AlarmUntouched == s_alarm_active = prev.active /\ outputs = prev.outputs

ActivePage == PageText("on", "LIGADO", "off", "off", "Desligar")

InactivePage == PageText("off", "DESLIGADO", "on", "on", "Ligar")

\* C14: HTTP dispatch -- only a request that starts with "GET " gets a
\* response: a 200 with the rendered page for the path "/", a 302 to
\* http://<GW_IP>/ with an empty body and no change of the alarm for every
\* other path; any other request gets no response byte and changes nothing.
C14_HttpDispatch ==
    (served > 0 /\ ~reply.crashed) =>
        IF ~StartsWith(request, "GET ")
        THEN reply.handed = "" /\ AlarmUntouched
        ELSE IF TargetPath(request) = "/"
        THEN /\ reply.kind = "page"
             /\ reply.handed # "" => StartsWith(reply.handed, "HTTP/1.1 200 ")
             /\ reply.result = IF s_alarm_active THEN ActivePage ELSE InactivePage
        ELSE /\ reply.kind = "redirect"
             /\ reply.result_len = 0
             /\ AlarmUntouched
             /\ reply.handed # "" =>
                  /\ StartsWith(reply.handed, "HTTP/1.1 302 ")
                  /\ Contains(reply.handed, "Location: http://192.168.4.1/")

AlarmRequest(cmd) == "GET /?alarm=" \o cmd \o EndOfHeaders

\* C15: HTTP idempotence -- of two consecutive requests GET /?alarm=on the
\* second changes neither the alarm nor its outputs, the alarm is active
\* after each, and the two bodies are the same bytes; likewise for off.
C15_Idempotence ==
    \A cmd \in {"on", "off"} :
        (served >= 2 /\ prev.request = AlarmRequest(cmd) /\ request = AlarmRequest(cmd)) =>
            /\ prev.active = (cmd = "on")
            /\ s_alarm_active = (cmd = "on")
            /\ outputs = prev.outputs
            /\ reply.kind = "page"
            /\ reply.result = prev.result

\* GET /?alarm=off for the second time in a row, with the alarm inactive
\* since the first, answered and acknowledged in full.
C15_SecondOffAnswered ==
    /\ served = 3
    /\ prev.request = AlarmRequest("off")
    /\ request = AlarmRequest("off")
    /\ outputs = 2
    /\ reply.sent_len = reply.header_len + reply.result_len
    /\ reply.closed = "ERR_OK"

\* C16: query interpretation -- for a GET on "/", the alarm is active after
\* the request whenever the query string contains alarm=on anywhere,
\* inactive whenever it contains alarm=off, and unchanged otherwise.
C16_QueryInterpretation ==
    (served > 0 /\ ~reply.crashed /\ StartsWith(request, "GET ") /\ TargetPath(request) = "/") =>
        LET query == TargetQuery(request)
            on == Contains(query, "alarm=on")
            off == Contains(query, "alarm=off")
        IN  /\ (on /\ ~off) => s_alarm_active
            /\ (off /\ ~on) => ~s_alarm_active
            /\ (~on /\ ~off) => AlarmUntouched

\* C17: the page body reflects the alarm as it is after the command of the
\* same request: on, LIGADO, off, off, Desligar when active and off,
\* DESLIGADO, on, on, Ligar when inactive; GET /?alarm=on leaves the alarm
\* active and GET /?alarm=off inactive.
C17_PageReflectsState ==
    (served > 0 /\ reply.kind = "page") =>
        /\ reply.result = IF s_alarm_active THEN ActivePage ELSE InactivePage
        /\ Len(reply.handed) = reply.header_len + reply.result_len =>
             StrFrom(reply.handed, reply.header_len + 1) = reply.result
        /\ request = AlarmRequest("on") => s_alarm_active
        /\ request = AlarmRequest("off") => ~s_alarm_active

\* GET /?alarm=on from inactive answered with the active page, then
\* GET /?alarm=off answered with the inactive page.
C17_OnThenOff ==
    /\ served = 2
    /\ prev.request = AlarmRequest("on")
    /\ prev.result = ActivePage
    /\ request = AlarmRequest("off")
    /\ reply.result = InactivePage
    /\ ~s_alarm_active
    /\ outputs = 2
    /\ Len(reply.handed) = reply.header_len + reply.result_len

\* C18: scenario S5 -- GET /favicon.ico HTTP/1.1 is answered with exactly
\* HTTP/1.1 302 Redirect CRLF Location: http://192.168.4.1/ CRLF CRLF, and
\* the connection is closed once these bytes are acknowledged.
C18_ScenarioS5 ==
    (request = "GET /favicon.ico HTTP/1.1\r\n\r\n" /\ reply.write_err = "ERR_OK") =>
        /\ reply.handed = "HTTP/1.1 302 Redirect\r\nLocation: http://192.168.4.1/\r\n\r\n"
        /\ reply.sent_len = Len(reply.handed) => reply.closed # "no"

\* C19: buffer overflow rule -- a response is handed to TCP exactly when
\* the rendered body is at most 1,500 bytes and the headers at most 127
\* bytes; otherwise the connection is closed with an error code and no
\* response byte is handed to TCP.
C19_OverflowRule ==
    (served > 0 /\ reply.kind # "none") =>
        LET fits == reply.result_len <= 1500 /\ reply.header_len <= 127
        IN  /\ (fits /\ reply.write_err = "ERR_OK") =>
                 Len(reply.handed) = reply.header_len + reply.result_len
            /\ reply.handed # "" => fits
            /\ ~fits => (reply.handed = "" /\ reply.closed \notin {"no", "ERR_OK"})

\* The page of 1,024 bytes and its 95 bytes of headers handed to TCP.
C19_PageHanded ==
    /\ reply.kind = "page"
    /\ reply.result_len = 1024
    /\ reply.header_len = 95
    /\ Len(reply.handed) = 1024 + 95
    /\ reply.closed = "no"

\* C20: no write past a buffer boundary -- whatever the request, the bytes
\* written to the 128-byte header scratch, to the 1,500-byte body buffer
\* and to the 4-byte alarm-command scratch stay within the buffer.
C20_WritesWithinBuffers ==
    /\ reply.wrote.headers <= 128
    /\ reply.wrote.result <= 1500
    /\ reply.wrote.command <= 4

-----------------------------------------------------------------------------
(* The supervisors: main of Atividade_08.c and of Atividade_02.c *)

MaxKeys == 2
MaxAlarmRequests == 3

\* The characters the console may deliver.
Keys == {"d", "D", "q", "Q", "x", "\n"}

\* The calls of the start-up that can fail.
InitFaults ==
    {"none", "calloc", "cyw43_arch_init", "udp_new dhcp", "udp_bind dhcp",
     "udp_new dns", "udp_bind dns", "tcp_new", "tcp_bind", "tcp_listen"}

AllOff == [green |-> FALSE, blue |-> FALSE, red |-> FALSE, buzzer |-> FALSE]

\* alarm_control_init: green on, blue, red and buzzer off
alarm_control_init == [green |-> TRUE, blue |-> FALSE, red |-> FALSE, buzzer |-> FALSE]

\* alarm_control_set_ap_led(on)
alarm_control_set_ap_led(pins, on) == [pins EXCEPT !.blue = on]

\* alarm_control_shutdown_outputs: red, buzzer and green off, blue untouched
alarm_control_shutdown_outputs(pins) ==
    [pins EXCEPT !.red = FALSE, !.buzzer = FALSE, !.green = FALSE]

\* oled_display_update_status(is_alarm_active)
oled_display_update_status(is_alarm_active) ==
    IF is_alarm_active THEN "EVACUAR" ELSE "Sistema em repouso"

\* What alarm_control_set_active(active) does to the outputs once the value
\* has changed: the display, and the pins it writes.
SetActiveOutputs(pins, active) ==
    [oled |-> oled_display_update_status(active),
     gpio |-> IF active
              THEN [pins EXCEPT !.green = FALSE]
              ELSE [pins EXCEPT !.red = FALSE, !.buzzer = FALSE, !.green = TRUE],
     toggle |-> FALSE]

\* dns_socket_bind ends in assert(false) when udp_bind fails: a build with
\* assertions stops there, a build without goes on.
DnsBindStops(f, asserts) == f = "udp_bind dns" /\ asserts

\* network_manager_init(state): the calls it makes, whether it returns true,
\* and the level it leaves on the blue LED.
network_manager_init(f, asserts) ==
    IF f = "cyw43_arch_init"
    THEN [steps |-> <<"cyw43_arch_init">>, ok |-> FALSE, blue |-> FALSE, stopped |-> FALSE]
    ELSE LET up == <<"cyw43_arch_init", "cyw43_arch_enable_ap_mode",
                     "alarm_control_set_ap_led(true)", "dhcp_server_init", "dns_server_init">>
         IN  IF DnsBindStops(f, asserts)
             THEN [steps |-> up, ok |-> FALSE, blue |-> TRUE, stopped |-> TRUE]
             ELSE IF f \in {"tcp_new", "tcp_bind", "tcp_listen"}
             THEN [steps |-> up \o <<"tcp_server_open_internal", "dns_server_deinit",
                                     "dhcp_server_deinit", "cyw43_arch_disable_ap_mode",
                                     "alarm_control_set_ap_led(false)", "cyw43_arch_deinit">>,
                   ok |-> FALSE, blue |-> FALSE, stopped |-> FALSE]
             ELSE [steps |-> up \o <<"tcp_server_open_internal">>,
                   ok |-> TRUE, blue |-> TRUE, stopped |-> FALSE]

\* wifi_ap_init(ssid, password)
wifi_ap_init(f, asserts) ==
    IF f = "cyw43_arch_init"
    THEN [steps |-> <<"cyw43_arch_init">>, ok |-> FALSE, stopped |-> FALSE]
    ELSE [steps |-> <<"cyw43_arch_init", "cyw43_arch_enable_ap_mode",
                      "dhcp_server_init", "dns_server_init">>,
          ok |-> ~DnsBindStops(f, asserts), stopped |-> DnsBindStops(f, asserts)]

\* web_server_start(port): false when tcp_new_ip_type or tcp_bind fails; the
\* result of tcp_listen_with_backlog is not looked at.
web_server_start(f) == f \notin {"tcp_new", "tcp_bind"}

\* The mark main's loop leaves in the log.
MainLoop == "while"

MainInit ==
    /\ pc = "start"
    /\ arch \in {"poll", "background"}
    /\ initFault = "none"
    /\ complete = FALSE
    /\ key = ""
    /\ reads = 0
    /\ gpio = AllOff
    /\ oled = "off"
    /\ toggle = FALSE
    /\ level = FALSE
    /\ s_last_toggle_time_us = 0
    /\ log = <<>>
    /\ returned = "no"
    /\ actor = "none"

\* app_config.h line 29
ALARM_BLINK_INTERVAL_MS == 500

\* The ages the model tells apart: anything older than the interval is due.
BlinkCap == ALARM_BLINK_INTERVAL_MS + 1

\* The steps the clock is seen to take between two looks at it, in ms.
BlinkSteps == {250, 499}

\* What the supervisors leave alone, the alarm flag apart.
notMainVars == <<dhcpVars, dnsVars, httpVars, request, prev, reply, leaseVars>>

alarmVars == <<s_alarm_active, outputs, served>>

\* Atividade_08.c, main up to its loop (lines 69-105)
Atividade_08_start(f, asserts) ==
    /\ server = "network_manager"
    /\ pc = "start"
    /\ initFault' = f
    /\ actor' = "main"
    /\ IF f = "calloc"
       THEN /\ returned' = "1"
            /\ pc' = "returned"
            /\ UNCHANGED <<gpio, oled, log>>
       ELSE LET net == network_manager_init(f, asserts)
                hw == <<"alarm_control_init", "oled_display_init", "oled_display_update_status">>
                pins == alarm_control_set_ap_led(alarm_control_init, net.blue)
            IN  IF net.stopped
                THEN /\ returned' = "abort"
                     /\ pc' = "returned"
                     /\ gpio' = pins
                     /\ oled' = oled_display_update_status(s_alarm_active)
                     /\ log' = hw \o net.steps
                ELSE IF ~net.ok
                THEN /\ returned' = "1"
                     /\ pc' = "returned"
                     /\ gpio' = alarm_control_shutdown_outputs(pins)
                     /\ oled' = "clear"
                     /\ log' = hw \o net.steps \o
                               <<"alarm_control_shutdown_outputs", "oled_display_clear", "free">>
                ELSE /\ returned' = "no"
                     /\ pc' = "while"
                     /\ gpio' = pins
                     /\ oled' = oled_display_update_status(s_alarm_active)
                     /\ log' = hw \o net.steps \o
                               <<"stdio_set_chars_available_callback", MainLoop>>
    /\ UNCHANGED <<arch, complete, key, reads, toggle, level, alarmVars, s_last_toggle_time_us, notMainVars>>

\* Atividade_02.c, main up to its loop (lines 55-80)
Atividade_02_start(f, asserts) ==
    /\ server = "web_server"
    /\ pc = "start"
    /\ f # "calloc"
    /\ initFault' = f
    /\ actor' = "main"
    /\ LET net == wifi_ap_init(f, asserts)
           hw == <<"led_init", "temperature_init">>
       IN  IF net.stopped
           THEN /\ returned' = "abort"
                /\ pc' = "returned"
                /\ log' = hw \o net.steps
           ELSE IF ~net.ok
           THEN /\ returned' = "1"
                /\ pc' = "returned"
                /\ log' = hw \o net.steps
           ELSE IF ~web_server_start(f)
           THEN /\ returned' = "1"
                /\ pc' = "returned"
                /\ log' = hw \o net.steps \o <<"web_server_start">>
           ELSE /\ returned' = "no"
                /\ pc' = "while"
                /\ log' = hw \o net.steps \o <<"web_server_start", MainLoop>>
    /\ UNCHANGED <<arch, complete, key, reads, gpio, oled, toggle, level, alarmVars, s_last_toggle_time_us, notMainVars>>

\* Where main is while its loop runs.
LoopPcs ==
    {"while", "cyw43_arch_poll", "alarm_control_process", "time", "toggle",
     "put_red", "put_buzzer", "getchar", "sleep"}

\* while (g_server_state && !g_server_state->complete),
\* while (!wifi_ap_must_shutdown())
main_while ==
    /\ pc = "while"
    /\ pc' = IF complete THEN "teardown" ELSE "cyw43_arch_poll"
    /\ actor' = "main"
    /\ UNCHANGED <<arch, initFault, complete, key, reads, gpio, oled, toggle, level, log,
                   returned, alarmVars, s_last_toggle_time_us, notMainVars>>

\* cyw43_arch_poll() where the build has it; wifi_ap_poll() and
\* web_server_poll()
cyw43_arch_poll ==
    /\ pc = "cyw43_arch_poll"
    /\ pc' = IF server = "network_manager" THEN "alarm_control_process" ELSE "getchar"
    /\ actor' = "main"
    /\ UNCHANGED <<arch, initFault, complete, key, reads, gpio, oled, toggle, level, log,
                   returned, alarmVars, s_last_toggle_time_us, notMainVars>>

\* alarm_control_process, line 84: if (s_alarm_active)
alarm_control_process_active ==
    /\ pc = "alarm_control_process"
    /\ pc' = IF s_alarm_active THEN "time" ELSE "sleep"
    /\ actor' = "alarm_control_process"
    /\ UNCHANGED <<arch, initFault, complete, key, reads, gpio, oled, toggle, level, log,
                   returned, alarmVars, s_last_toggle_time_us, notMainVars>>

\* lines 85-87: has ALARM_BLINK_INTERVAL_MS passed since the last toggle
alarm_control_process_time ==
    /\ pc = "time"
    /\ pc' = IF s_last_toggle_time_us >= ALARM_BLINK_INTERVAL_MS THEN "toggle" ELSE "sleep"
    /\ actor' = "alarm_control_process"
    /\ UNCHANGED <<arch, initFault, complete, key, reads, gpio, oled, toggle, level, log,
                   returned, alarmVars, s_last_toggle_time_us, notMainVars>>

\* line 88: s_alarm_output_toggle_state = !s_alarm_output_toggle_state
alarm_control_process_toggle ==
    /\ pc = "toggle"
    /\ toggle' = ~toggle
    /\ level' = ~toggle
    /\ pc' = "put_red"
    /\ actor' = "alarm_control_process"
    /\ UNCHANGED <<arch, initFault, complete, key, reads, gpio, oled, log,
                   returned, alarmVars, s_last_toggle_time_us, notMainVars>>

\* line 89: gpio_put(LED_RED_GPIO, s_alarm_output_toggle_state).  The
\* variable is not volatile: the value written is the one computed at line
\* 88 or the one in memory now.
alarm_control_process_red ==
    /\ pc = "put_red"
    /\ \E v \in {level, toggle} : gpio' = [gpio EXCEPT !.red = v]
    /\ pc' = "put_buzzer"
    /\ actor' = "alarm_control_process"
    /\ UNCHANGED <<arch, initFault, complete, key, reads, oled, toggle, level, log,
                   returned, alarmVars, s_last_toggle_time_us, notMainVars>>

\* line 90: gpio_put(BUZZER_GPIO, s_alarm_output_toggle_state), and line 91:
\* s_last_toggle_time_us = current_time_us, the time read at line 85.  The
\* lines of one call take microseconds, nothing on the scale of the interval.
alarm_control_process_buzzer ==
    /\ pc = "put_buzzer"
    /\ \E v \in {level, toggle} : gpio' = [gpio EXCEPT !.buzzer = v]
    /\ s_last_toggle_time_us' = 0
    /\ pc' = "sleep"
    /\ actor' = "alarm_control_process"
    /\ UNCHANGED <<arch, initFault, complete, key, reads, oled, toggle, level, log,
                   returned, alarmVars, notMainVars>>

\* Atividade_02.c lines 103-108: getchar_timeout_us(0), 'q' or 'Q' asks for
\* the shutdown
Atividade_02_getchar(c) ==
    /\ pc = "getchar"
    /\ IF c = "timeout"
       THEN UNCHANGED <<key, reads, complete>>
       ELSE /\ reads < MaxKeys
            /\ key' = c
            /\ reads' = reads + 1
            /\ complete' = (complete \/ c \in {"q", "Q"})
    /\ pc' = "sleep"
    /\ actor' = "main"
    /\ UNCHANGED <<arch, initFault, gpio, oled, toggle, level, log,
                   returned, alarmVars, s_last_toggle_time_us, notMainVars>>

\* Time goes by while main waits at the end of an iteration: the clock
\* time_us_64() moves on by d ms, so every recorded time is d ms older.
time_us_64(d) ==
    /\ pc = "sleep"
    /\ s_last_toggle_time_us < BlinkCap
    /\ s_last_toggle_time_us' = IF s_last_toggle_time_us + d > BlinkCap
                                THEN BlinkCap ELSE s_last_toggle_time_us + d
    /\ actor' = "time_us_64"
    /\ UNCHANGED <<pc, arch, initFault, complete, key, reads, gpio, oled, toggle, level, log,
                   returned, alarmVars, notMainVars>>

\* cyw43_arch_wait_for_work_until(10 ms) or sleep_ms(10)
main_sleep ==
    /\ pc = "sleep"
    /\ pc' = "while"
    /\ actor' = "main"
    /\ UNCHANGED <<arch, initFault, complete, key, reads, gpio, oled, toggle, level, log,
                   returned, alarmVars, s_last_toggle_time_us, notMainVars>>

\* Atividade_08.c key_pressed_func, with the character getchar_timeout_us
\* gives it; it is registered from line 104 to line 138.
key_pressed_func_char(c) ==
    /\ server = "network_manager"
    /\ pc \in LoopPcs \cup {"teardown"}
    /\ reads < MaxKeys
    /\ key' = c
    /\ reads' = reads + 1
    /\ complete' = (complete \/ c \in {"d", "D"})
    /\ actor' = "key_pressed_func"
    /\ UNCHANGED <<pc, arch, initFault, gpio, oled, toggle, level, log,
                   returned, alarmVars, s_last_toggle_time_us, notMainVars>>

\* The stack runs callbacks inside cyw43_arch_poll in a polling build and
\* from an interrupt, between any two steps of main, in a background build.
CallbacksMayRun == pc \in LoopPcs /\ (arch = "background" \/ pc = "cyw43_arch_poll")

AlarmParams ==
    {NoParams, [given |-> TRUE, str |-> "alarm=on"], [given |-> TRUE, str |-> "alarm=off"]}

\* tcp_server_recv for a GET on "/": http_generate_page_content and, through
\* it, alarm_control_set_active
tcp_server_recv_alarm(params) ==
    /\ server = "network_manager"
    /\ CallbacksMayRun
    /\ served < MaxAlarmRequests
    /\ LET page == http_generate_page_content(params, [active |-> s_alarm_active,
                                                        outputs |-> outputs])
           out == SetActiveOutputs(gpio, page.alarm.active)
       IN  /\ s_alarm_active' = page.alarm.active
           /\ outputs' = page.alarm.outputs
           /\ IF page.alarm.active # s_alarm_active
              THEN gpio' = out.gpio /\ oled' = out.oled /\ toggle' = out.toggle
              ELSE UNCHANGED <<gpio, oled, toggle>>
           \* alarm_control.c line 61: s_last_toggle_time_us = time_us_64()
           /\ IF page.alarm.active /\ ~s_alarm_active
              THEN s_last_toggle_time_us' = 0
              ELSE UNCHANGED s_last_toggle_time_us
    /\ served' = served + 1
    /\ actor' = "tcp_server_recv"
    /\ UNCHANGED <<pc, arch, initFault, complete, key, reads, level, log, returned, notMainVars>>

\* network_manager_deinit(state) as called at Atividade_08.c:166
NetworkManagerDeinit ==
    <<"tcp_close(server_pcb)", "dns_server_deinit", "dhcp_server_deinit",
      "alarm_control_set_ap_led(false)">>

\* Atividade_08.c, main after its loop (lines 134-181)
Atividade_08_teardown ==
    /\ server = "network_manager"
    /\ pc = "teardown"
    /\ log' = log \o <<"stdio_set_chars_available_callback(NULL)",
                       "alarm_control_shutdown_outputs", "oled_display_show_ap_disabled",
                       "cyw43_arch_disable_ap_mode", "alarm_control_set_ap_led(false)">>
                  \o NetworkManagerDeinit \o <<"cyw43_arch_deinit", "free">>
    /\ gpio' = alarm_control_set_ap_led(alarm_control_shutdown_outputs(gpio), FALSE)
    /\ oled' = "AP Desativado"
    /\ returned' = "0"
    /\ pc' = "returned"
    /\ actor' = "main"
    /\ UNCHANGED <<arch, initFault, complete, key, reads, toggle, level, alarmVars, s_last_toggle_time_us, notMainVars>>

\* wifi_ap_deinit()
wifi_ap_deinit ==
    <<"dns_server_deinit", "dhcp_server_deinit", "cyw43_arch_disable_ap_mode",
      "cyw43_arch_deinit">>

\* Atividade_02.c, main after its loop (lines 115-123)
Atividade_02_teardown ==
    /\ server = "web_server"
    /\ pc = "teardown"
    /\ log' = log \o <<"web_server_stop">> \o wifi_ap_deinit
    /\ returned' = "0"
    /\ pc' = "returned"
    /\ actor' = "main"
    /\ UNCHANGED <<arch, initFault, complete, key, reads, gpio, oled, toggle, level,
                   alarmVars, s_last_toggle_time_us, notMainVars>>

\* The steps of main itself.
MainStep ==
    \/ \E f \in InitFaults : \E asserts \in BOOLEAN : Atividade_08_start(f, asserts)
    \/ \E f \in InitFaults : \E asserts \in BOOLEAN : Atividade_02_start(f, asserts)
    \/ main_while
    \/ cyw43_arch_poll
    \/ alarm_control_process_active
    \/ alarm_control_process_time
    \/ alarm_control_process_toggle
    \/ alarm_control_process_red
    \/ alarm_control_process_buzzer
    \/ \E c \in Keys \cup {"timeout"} : Atividade_02_getchar(c)
    \/ main_sleep
    \/ Atividade_08_teardown
    \/ Atividade_02_teardown

MainNext ==
    \/ \E f \in InitFaults : \E asserts \in BOOLEAN : Atividade_08_start(f, asserts)
    \/ \E f \in InitFaults : \E asserts \in BOOLEAN : Atividade_02_start(f, asserts)
    \/ main_while
    \/ cyw43_arch_poll
    \/ alarm_control_process_active
    \/ alarm_control_process_time
    \/ alarm_control_process_toggle
    \/ alarm_control_process_red
    \/ alarm_control_process_buzzer
    \/ \E c \in Keys \cup {"timeout"} : Atividade_02_getchar(c)
    \/ main_sleep
    \/ Atividade_08_teardown
    \/ Atividade_02_teardown
    \/ \E c \in Keys : key_pressed_func_char(c)
    \/ \E params \in AlarmParams : tcp_server_recv_alarm(params)
    \/ \E d \in BlinkSteps : time_us_64(d)

\* main is never held up: every call in its loop returns.
MainFairness == WF_vars(MainStep)

-----------------------------------------------------------------------------
(* Properties of the supervisors *)

\* C21: hardware ownership -- a step of the HTTP recv callback and of the
\* page renderer changes no hardware output (LEDs, buzzer, display), and
\* while the loop runs the red LED and the buzzer change level only in the
\* supervisor's blink step.
C21_HardwareOwnership ==
    [][/\ actor' = "tcp_server_recv" => (gpio' = gpio /\ oled' = oled)
       /\ (pc \in LoopPcs /\ (gpio'.red # gpio.red \/ gpio'.buzzer # gpio.buzzer)) =>
              actor' = "alarm_control_process"]_vars

\* alarm_control_process is between its test of the alarm flag and its
\* last write.
BlinkInProgress == pc \in {"time", "toggle", "put_red", "put_buzzer"}

\* C22: alarm-inactive invariant -- between the end of the initialisation
\* and the start of the teardown, whenever the alarm is inactive and no alarm
\* operation is in progress, the red LED and the buzzer are off and the green
\* LED is on, in a polling build and in a background build alike.
C22_AlarmInactive ==
    (server = "network_manager" /\ pc \in LoopPcs /\ ~s_alarm_active /\ ~BlinkInProgress) =>
        (~gpio.red /\ ~gpio.buzzer /\ gpio.green)

\* The same for the polling build alone.
AlarmInactive_Poll == arch = "poll" => C22_AlarmInactive

ShutdownKeys == {"d", "D", "q", "Q"}

\* C23: shutdown liveness -- once a shutdown character has been read from
\* the console the loop ends, the teardown runs to its end and main returns
\* 0; the shutdown flag is never cleared once set.
C23_ShutdownLiveness ==
    /\ [](key \in ShutdownKeys => <>(returned = "0"))
    /\ [][complete => complete']_vars

\* The same for the characters the running firmware looks for.
ShutdownLiveness_OwnKeys ==
    /\ []((complete /\ pc \in LoopPcs) => <>(returned = "0"))
    /\ [][complete => complete']_vars

\* C24: console shutdown keys -- reading 'd', 'D', 'q' or 'Q' from the
\* console sets the shutdown flag, and reading any other character leaves
\* it as it is.
C24_ShutdownKeys ==
    [][reads' = reads + 1 => (complete' = (complete \/ key' \in ShutdownKeys))]_vars

\* The part of the log after (before) the mark the loop leaves.
MarkAt == CHOOSE k \in 1 .. Len(log) : log[k] = MainLoop
AfterLoop == SubSeq(log, MarkAt + 1, Len(log))
BeforeLoop == SubSeq(log, 1, MarkAt - 1)

\* The position of a call in the teardown sequence of the specification
\* (0: not one of its steps).
TeardownRank(call) ==
    CASE call \in {"tcp_close(server_pcb)", "web_server_stop"} -> 1
      [] call = "dns_server_deinit" -> 2
      [] call = "dhcp_server_deinit" -> 3
      [] call = "cyw43_arch_disable_ap_mode" -> 4
      [] call = "oled_display_show_ap_disabled" -> 5
      [] call = "free" -> 6
      [] call = "cyw43_arch_deinit" -> 7
      [] OTHER -> 0

\* The position of a call in the start-up sequence of the specification.
StartupRank(call) ==
    CASE call \in {"alarm_control_init", "oled_display_init", "led_init",
                   "temperature_init", "cyw43_arch_init"} -> 1
      [] call = "dhcp_server_init" -> 2
      [] call = "dns_server_init" -> 3
      [] call \in {"tcp_server_open_internal", "web_server_start"} -> 4
      [] call = "cyw43_arch_enable_ap_mode" -> 5
      [] call = "alarm_control_set_ap_led(true)" -> 6
      [] call = "oled_display_update_status" -> 7
      [] OTHER -> 0

\* No call of the sequence comes after a call of higher rank.
InOrder(calls, Rank(_)) ==
    \A i, j \in 1 .. Len(calls) :
        (i < j /\ Rank(calls[i]) > 0 /\ Rank(calls[j]) > 0) => Rank(calls[i]) <= Rank(calls[j])

\* C25: teardown order -- after the loop the steps are made in this order:
\* close the HTTP listener, deinit DNS, deinit DHCP, disable the AP radio,
\* show the farewell screen, free the supervisor state, deinit the radio
\* driver.
C25_TeardownOrder ==
    returned = "0" => InOrder(AfterLoop, TeardownRank)

\* C26: initialisation order -- hardware collaborators, DHCP, DNS, HTTP
\* listener, AP radio, blue LED, initial screen, in this order; the AP radio
\* is enabled only once DHCP, DNS and HTTP are ready.
C26_InitOrder ==
    pc \in LoopPcs => InOrder(BeforeLoop, StartupRank)

\* The failures the specification calls fatal.
FatalFaults ==
    {"cyw43_arch_init", "udp_new dhcp", "udp_bind dhcp", "udp_new dns", "udp_bind dns",
     "tcp_new", "tcp_bind", "tcp_listen"}

\* C27: fatal init failures -- when the radio driver does not start or the
\* DHCP endpoint, the DNS endpoint or the HTTP listener cannot be created,
\* bound or put to listen, main returns 1 and never enters its loop.
C27_FatalInitFailures ==
    initFault \in FatalFaults => (pc = "returned" /\ returned = "1")

-----------------------------------------------------------------------------
(* The lease table over time *)

LeaseClients == 2
MaxElapse == 2

LEASE_MS == DEFAULT_LEASE_TIME_S * 1000

\* cyw43_hal_ticks_ms() when the first client shows up: just after the
\* start, where the expiry computed comes out as 0, just before the
\* counter wraps, and just before its sign bit changes.
LeaseStarts ==
    {U32Of(0), [hi |-> W16 - 1319, lo |-> 60000], [hi |-> W16 - 1, lo |-> 20000],
     [hi |-> 32767, lo |-> 65000]}

\* The milliseconds that pass between two datagrams.
LeaseSteps == {50000, LEASE_MS - 50000 - 1, LEASE_MS - 1, LEASE_MS + 70000}

NeverAcked == [mac |-> 0, age |-> LEASE_MS]

Older(age, d) == IF age + d >= LEASE_MS THEN LEASE_MS ELSE age + d

LeaseInit ==
    /\ acked = [i \in Slots |-> NeverAcked]
    /\ offered = [m \in 0 .. LeaseClients |-> 0]
    /\ promised = 0
    /\ held = [m \in 0 .. LeaseClients |-> [idx |-> -1, age |-> LEASE_MS]]

\* dhcp_server_process for a DISCOVER or a REQUEST of client m
dhcp_server_process_lease(m, msg_type) ==
    LET dg == Whole(MsgTypeOpts(msg_type), m, NoFlags, ZeroIp)
        r == ProcessResult(lease, now, dg)
        out == r.reply
    IN  /\ lease' = r.lease
        /\ dhcpIn' = dg
        /\ dhcpOut' = out
        /\ acked' = IF out.sent /\ out.type = DHCPACK
                    THEN [acked EXCEPT ![out.idx] = [mac |-> m, age |-> 0]]
                    ELSE acked
        /\ held' = IF out.sent /\ out.type = DHCPACK
                   THEN [held EXCEPT ![m] = [idx |-> out.idx, age |-> 0]]
                   ELSE held
        /\ promised' = offered[m]
        /\ offered' = [offered EXCEPT ![m] = IF out.sent /\ out.type = DHCPOFFER
                                             THEN out.yiaddr[4] ELSE 0]
        /\ UNCHANGED <<now, ticks, joined, run, quiet, quietPrev, notDhcpVars_lease>>

\* Time passes; an OFFER stands only as long as no lease runs out.
Elapse(d) ==
    /\ ticks < MaxElapse
    /\ ticks' = ticks + 1
    /\ now' = U32Add(now, U32Of(d))
    /\ acked' = [i \in Slots |-> [acked[i] EXCEPT !.age = Older(@, d)]]
    /\ offered' = IF \E i \in Slots : SeenExpired(lease[i], now') # SeenExpired(lease[i], now)
                  THEN [m \in 0 .. LeaseClients |-> 0] ELSE offered
    /\ held' = [m \in 0 .. LeaseClients |-> [held[m] EXCEPT !.age = Older(@, d)]]
    /\ UNCHANGED <<lease, joined, run, dhcpIn, dhcpOut, quiet, quietPrev, promised,
                   notDhcpVars_lease>>

LeaseNext ==
    \/ \E m \in 1 .. LeaseClients : \E msg_type \in {DHCPDISCOVER, DHCPREQUEST} :
         dhcp_server_process_lease(m, msg_type)
    \/ \E d \in LeaseSteps : Elapse(d)

\* The milliseconds that pass between two datagrams where the holders are
\* followed: less than a lease time, and more.
HoldSteps == {50000, LEASE_MS + 70000}

\* The same with the client whose chaddr is all zero among the senders.
HoldNext ==
    \/ \E m \in 0 .. LeaseClients : \E msg_type \in {DHCPDISCOVER, DHCPREQUEST} :
         dhcp_server_process_lease(m, msg_type)
    \/ \E d \in HoldSteps : Elapse(d)

-----------------------------------------------------------------------------
(* Properties of the lease table over time *)

\* C28: a live lease is never recycled -- from the ACK of a REQUEST of MAC M
\* on slot i until 86,400 s later, slot i keeps the MAC M and no datagram
\* of another MAC is answered with slot i's address, also while the
\* millisecond counter or the 16-bit expiry wraps around.
C28_LiveLeaseKept ==
    \A i \in Slots :
        (acked[i].mac # 0 /\ acked[i].age < LEASE_MS) =>
            /\ lease[i].mac = acked[i].mac
            /\ ~(dhcpOut.sent /\ dhcpOut.idx = i /\ dhcpIn.chaddr # acked[i].mac)

\* Client 1 holds slot 0 since one millisecond less than the lease time,
\* the expiry stored for it has wrapped to 0 and so has the counter, and the
\* REQUEST of client 2 is ACKed on slot 1.
C28_LiveAcrossWrap ==
    /\ acked[0] = [mac |-> 1, age |-> LEASE_MS - 1]
    /\ lease[0] = [mac |-> 1, expiry |-> 0]
    /\ now.hi = 0
    /\ dhcpIn.chaddr = 2
    /\ dhcpOut.sent
    /\ dhcpOut.type = DHCPACK
    /\ dhcpOut.idx = 1

\* The stored expiry has passed the current coarse timestamp, taken as a
\* signed difference of the two 16-bit stamps.
ExpiryPassed(e, t) == Int16((t.hi - e + W16) % W16) > 0

\* C29: free-for-reuse is one predicate -- for every slot, at any time, the
\* DISCOVER path and the REQUEST path agree on whether the slot is free, and
\* both take it as free exactly when its MAC is all-zero or its expiry has
\* passed the current coarse timestamp, a slot whose 16-bit expiry is 0
\* included.
C29_FreeForReuse ==
    \A i \in Slots :
        LET free == lease[i].mac = 0 \/ ExpiryPassed(lease[i].expiry, now)
        IN  /\ (lease[i].mac = 0 \/ ExpiredDiscover(lease[i].expiry, now)) = free
            /\ RequestFree(lease, i, now) = free

\* C30: multi-client interleaving -- with no lease running out meanwhile,
\* the yiaddr of the ACK a client receives is the yiaddr of the OFFER that
\* answered its own preceding DISCOVER, however the exchanges of the clients
\* interleave.
C30_AckMatchesOffer ==
    (dhcpOut.sent /\ dhcpOut.type = DHCPACK /\ promised # 0) => dhcpOut.yiaddr[4] = promised

-----------------------------------------------------------------------------
(* Properties of the lease table: selection and commit *)

\* A datagram has just been handed to dhcp_server_process.
DatagramArrives == dhcpIn = NoDatagram /\ dhcpIn' # NoDatagram

\* A well-formed datagram whose Option 53 says REQUEST.
IsRequest(dg) == ~ToBeDropped(dg) /\ ReceivedMsgType(dg) = DHCPREQUEST

\* C31: MAC write rule -- a DISCOVER answered from a previously free slot
\* leaves the client's MAC in that slot (an occupied slot is not written),
\* and after a REQUEST the selected slot always holds the client's MAC.
C31_MacWriteRule ==
    (dhcpOut.sent /\ dhcpOut.type \in {DHCPOFFER, DHCPACK}) =>
        lease[dhcpOut.idx].mac = dhcpIn.chaddr

\* Free-for-reuse as the specification words it.
FreeForReuse(ls, i, t) == ls[i].mac = 0 \/ ExpiryPassed(ls[i].expiry, t)

\* The slot a REQUEST of chaddr is to select: the one holding chaddr, else
\* the lowest free one, else none.
Selected(ls, chaddr, t, Free(_, _, _)) ==
    IF \E i \in Slots : ls[i].mac = chaddr THEN First({i \in Slots : ls[i].mac = chaddr})
    ELSE IF \E i \in Slots : Free(ls, i, t) THEN First({i \in Slots : Free(ls, i, t)})
    ELSE NULL

\* The upper 16 bits of (now_ms + 86,400,000) mod 2^32; 86,400,000 is
\* 1318 * 65536 + 23552.
ExpiryAfter(t) == (t.hi + 1318 + (t.lo + 23552) \div 65536) % 65536

RequestCommits(Free(_, _, _)) ==
    (DatagramArrives /\ IsRequest(dhcpIn')) =>
        LET sel == Selected(lease, dhcpIn'.chaddr, now, Free)
        IN  sel # NULL =>
              /\ dhcpOut'.sent
              /\ dhcpOut'.type = DHCPACK
              /\ dhcpOut'.idx = sel
              /\ dhcpOut'.yiaddr = <<192, 168, 4, 16 + sel>>
              /\ lease' = [lease EXCEPT ![sel] = [mac |-> dhcpIn'.chaddr,
                                                  expiry |-> ExpiryAfter(now)]]

\* C32: REQUEST slot selection and commit -- a REQUEST selects the slot
\* whose MAC equals chaddr if there is one, otherwise the lowest free-for-
\* reuse slot; after the ACK that slot holds chaddr and the upper 16 bits of
\* (now_ms + 86,400,000) mod 2^32, no other slot changes, and an Option 50
\* in the REQUEST has no influence on the slot or on yiaddr.
C32_RequestCommit == [][RequestCommits(FreeForReuse)]_vars

\* The same with free-for-reuse as the REQUEST path tests it.
RequestCommit_OwnTest == [][RequestCommits(RequestFree)]_vars

\* All slots hold unexpired leases of non-zero MACs.
PoolFull(ls, t) == \A i \in Slots : ls[i].mac # 0 /\ ~ExpiryPassed(ls[i].expiry, t)

\* C33: pool exhaustion -- when all 8 slots hold unexpired leases of
\* non-zero MACs, a DISCOVER or REQUEST of a ninth MAC gets no reply and
\* leaves every slot as it was, while the DISCOVERs and REQUESTs of the eight
\* holders are still answered with their own addresses.
C33_PoolExhaustion ==
    [][(DatagramArrives /\ PoolFull(lease, now) /\ ~ToBeDropped(dhcpIn')) =>
         IF Holds(lease, dhcpIn'.chaddr)
         THEN /\ dhcpOut'.sent
              /\ lease[dhcpOut'.idx].mac = dhcpIn'.chaddr
              /\ \A i \in Slots : lease'[i].mac = lease[i].mac
         ELSE ~dhcpOut'.sent /\ lease' = lease]_vars

\* The pool is full and the REQUEST of the ninth client has gone unanswered.
C33_NinthRefused ==
    /\ PoolFull(lease, now)
    /\ dhcpIn.chaddr = 9
    /\ IsRequest(dhcpIn)
    /\ ~dhcpOut.sent

\* C34: REQUEST carrying a ciaddr -- a REQUEST whose ciaddr is non-zero (a
\* RENEW or REBIND) is silently dropped: no ACK is sent for it and no slot
\* of the lease table changes.
C34_RenewDropped ==
    [][(DatagramArrives /\ IsRequest(dhcpIn') /\ dhcpIn'.ciaddr # <<0, 0, 0, 0>>) =>
         (~dhcpOut'.sent /\ lease' = lease)]_vars

-----------------------------------------------------------------------------
(* The fixed part of the replies *)

FrameClients == 3

\* Fixed parts as they may arrive: a plain one, one that came through a
\* relay with every field in use, and one that says BOOTREPLY already.
Headers ==
    {PlainHeader,
     FixedPart(1, 6, 6, 3, <<222, 173, 190, 239>>, <<1, 44>>, <<0, 0>>, ZeroIp,
               <<10, 1, 2, 3>>, <<10, 0, 0, 2>>, <<10, 0, 0, 1>>, 0, 171, "pxe", "boot.img"),
     FixedPart(2, 1, 6, 0, <<0, 0, 0, 0>>, <<0, 0>>, <<0, 0>>, ZeroIp,
               <<192, 168, 4, 20>>, <<192, 168, 4, 1>>, ZeroIp, 0, 0, "", "")}

\* dhcp_server_process for a DISCOVER or REQUEST with any of the fixed parts
dhcp_server_process_frame ==
    \E m \in 0 .. FrameClients : \E msg_type \in {DHCPDISCOVER, DHCPREQUEST} :
    \E h \in Headers : \E f \in {NoFlags, BroadcastFlags} : \E c \in {ZeroIp, SomeCiaddr} :
        Receive([Whole(MsgTypeOpts(msg_type), m, f, c) EXCEPT !.hdr = h])

FrameNext == dhcp_server_process_frame \/ Delivered

\* C35: DHCP reply header frame -- every reply is the inbound message with
\* op set to 2, yiaddr set to the selected pool address and siaddr set to
\* GW_IP; htype, hlen, hops, xid, secs, flags, ciaddr, giaddr, chaddr, sname
\* and file of the reply are those of the request, byte for byte.
C35_ReplyHeaderFrame ==
    dhcpOut.sent =>
        /\ dhcpOut.hdr.op = 2
        /\ dhcpOut.hdr.yiaddr = <<192, 168, 4, 16 + dhcpOut.idx>>
        /\ dhcpOut.hdr.siaddr = <<192, 168, 4, 1>>
        /\ dhcpOut.hdr.htype = dhcpIn.hdr.htype
        /\ dhcpOut.hdr.hlen = dhcpIn.hdr.hlen
        /\ dhcpOut.hdr.hops = dhcpIn.hdr.hops
        /\ dhcpOut.hdr.xid = dhcpIn.hdr.xid
        /\ dhcpOut.hdr.secs = dhcpIn.hdr.secs
        /\ dhcpOut.hdr.flags = dhcpIn.flags
        /\ dhcpOut.hdr.ciaddr = dhcpIn.ciaddr
        /\ dhcpOut.hdr.giaddr = dhcpIn.hdr.giaddr
        /\ dhcpOut.hdr.chaddr = dhcpIn.chaddr
        /\ dhcpOut.hdr.chaddr_pad = dhcpIn.hdr.chaddr_pad
        /\ dhcpOut.hdr.sname = dhcpIn.hdr.sname
        /\ dhcpOut.hdr.file = dhcpIn.hdr.file

\* An ACK for a REQUEST that came through a relay, with a ciaddr and the
\* broadcast flag set.
C35_RelayedRequestAcked ==
    /\ dhcpOut.sent
    /\ dhcpOut.type = DHCPACK
    /\ dhcpIn.hdr.giaddr = <<10, 0, 0, 1>>
    /\ dhcpIn.hdr.file = "boot.img"
    /\ dhcpIn.flags = BroadcastFlags
    /\ dhcpIn.ciaddr = SomeCiaddr
    /\ dhcpOut.idx = 2

-----------------------------------------------------------------------------
(* Properties of the buffers and handles of the HTTP server *)

\* The statuses after which the stack neither keeps nor delivers again the
\* buffer it passed to the receive callback: ERR_OK (consumed) and ERR_ABRT
\* (the connection is gone).  After any other status the stack keeps the
\* buffer as refused data.
StackLetsGo == {"ERR_OK", "ERR_ABRT"}

\* C36: inbound buffer ownership -- every inbound buffer delivered to a
\* receive callback is released exactly once on every path (reply sent,
\* silent drop, parse error, write error), and a callback never both releases
\* the buffer and returns a status that leaves the buffer with the stack.
C36_BufferOwnership ==
    (served > 0 /\ ~reply.crashed) =>
        /\ reply.freed = 1
        /\ reply.returned \in StackLetsGo

-----------------------------------------------------------------------------
(* The blink of the red LED and the buzzer *)

\* A step of alarm_control_process, and a change of the alarm to active.
BlinkStep == actor' = "alarm_control_process"

Activation == ~s_alarm_active /\ s_alarm_active'

\* What the blink policy asks of one step.
BlinkPolicy ==
    /\ Activation =>
          /\ ~gpio'.green
          /\ ~toggle'
          /\ s_last_toggle_time_us' = 0
    /\ (pc = "time" /\ BlinkStep /\ s_last_toggle_time_us < ALARM_BLINK_INTERVAL_MS) =>
          /\ pc' = "sleep"
          /\ UNCHANGED <<gpio, toggle, s_last_toggle_time_us>>
    /\ (pc = "time" /\ BlinkStep /\ s_last_toggle_time_us >= ALARM_BLINK_INTERVAL_MS) =>
          pc' = "toggle"
    /\ (pc = "toggle" /\ BlinkStep) =>
          /\ toggle' = ~toggle
          /\ pc' = "put_red"
    /\ (pc = "put_buzzer" /\ BlinkStep /\ s_alarm_active) =>
          /\ toggle' = level
          /\ gpio'.red = level
          /\ gpio'.buzzer = level
          /\ s_last_toggle_time_us' = 0
          /\ pc' = "sleep"
    /\ (pc' \in LoopPcs \ {"put_buzzer"}) => gpio'.red = gpio'.buzzer

\* C37: blink policy while active -- after a change from inactive to active
\* the green LED is off, the blink phase is false and the last-toggle time is
\* the time of the activation; a blink step taken ALARM_BLINK_INTERVAL_MS or
\* more after the last toggle flips the phase exactly once, drives the red LED
\* and the buzzer to the new phase and records the toggle time; an earlier
\* step changes nothing; the red LED and the buzzer show the same level
\* whenever no blink step is between its two writes.
C37_BlinkPolicy == [][BlinkPolicy]_vars

\* The same where the callbacks run from cyw43_arch_poll alone.
BlinkPolicy_Poll == [][arch = "poll" => BlinkPolicy]_vars

\* A blink has gone through in a polling build: both outputs are on, the
\* toggle time is new.
BlinkPolicy_PollBlinked ==
    /\ arch = "poll"
    /\ pc = "sleep"
    /\ actor = "alarm_control_process"
    /\ s_alarm_active
    /\ toggle /\ gpio.red /\ gpio.buzzer /\ ~gpio.green
    /\ s_last_toggle_time_us = 0

-----------------------------------------------------------------------------
(* The holders of the addresses *)

\* Client m holds an ACKed lease that has not run out, on slot i.
HoldsLease(m, i) == held[m].idx = i /\ held[m].age < LEASE_MS

\* C38: no duplicate address -- at no time do two clients with different
\* chaddr values, the all-zero chaddr included, both hold an ACKed lease that
\* has not run out on the same yiaddr.
C38_NoDuplicateAddress ==
    \A m, n \in 0 .. LeaseClients : \A i \in Slots :
        (HoldsLease(m, i) /\ HoldsLease(n, i)) => m = n

\* The same of the clients whose chaddr is not all zero.
NoDuplicateAddress_NonZero ==
    \A m, n \in 1 .. LeaseClients : \A i \in Slots :
        (HoldsLease(m, i) /\ HoldsLease(n, i)) => m = n

-----------------------------------------------------------------------------
(* The response bytes and the TCP handle *)

\* C39: response bytes outlive their buffers' use -- the header and the body
\* are handed to tcp_write by reference, and in no reachable state is the
\* connection state that holds them freed while the stack still has some of
\* those bytes to send or to see acknowledged.
C39_BytesOutliveUse ==
    \A c \in Conns :
        (server = "network_manager" /\ con_state[c].mem = "freed" /\ pcb[c] = "closing")
            => unacked[c] = 0

\* C40: TCP handle used only while valid -- the server never calls an
\* operation (clear callbacks, close, abort) on the TCP handle of a connection
\* after the stack has released that handle; the error callback, which runs
\* when the handle is released already, frees the connection state and leaves
\* the handle alone.
C40_HandleUsedWhileValid == ~misuse

-----------------------------------------------------------------------------
(* Specifications *)

\* Each program is started on its own; the state of the others stays as
\* constructed.
InitDhcp ==
    /\ DhcpInit
    /\ DnsInit
    /\ HttpInit
    /\ PageInit
    /\ server = "network_manager"
    /\ MainInit
    /\ arch = "poll"
    /\ LeaseInit

InitDns ==
    /\ DnsInit
    /\ DhcpInit
    /\ run.ticks = 0
    /\ HttpInit
    /\ PageInit
    /\ server = "network_manager"
    /\ MainInit
    /\ arch = "poll"
    /\ LeaseInit

InitHttp ==
    /\ HttpInit
    /\ DhcpInit
    /\ run.ticks = 0
    /\ DnsInit
    /\ PageInit
    /\ MainInit
    /\ arch = "poll"
    /\ LeaseInit

InitPage ==
    /\ PageInit
    /\ DhcpInit
    /\ run.ticks = 0
    /\ DnsInit
    /\ HttpInit
    /\ server = "network_manager"
    /\ MainInit
    /\ arch = "poll"
    /\ LeaseInit

InitMain ==
    /\ MainInit
    /\ PageInit
    /\ DhcpInit
    /\ run.ticks = 0
    /\ DnsInit
    /\ HttpInit
    /\ LeaseInit

InitLease ==
    /\ LeaseInit
    /\ lease = [i \in Slots |-> FreeSlot]
    /\ now \in LeaseStarts
    /\ ticks = 0
    /\ joined = 0
    /\ dhcpIn = NoDatagram
    /\ dhcpOut = NoReply
    /\ run = [clients |-> LeaseClients, ticks |-> MaxElapse]
    /\ quiet = NoQuiet
    /\ quietPrev = 0
    /\ DnsInit
    /\ HttpInit
    /\ server = "network_manager"
    /\ PageInit
    /\ MainInit
    /\ arch = "poll"

InitFrame ==
    /\ InitDhcp
    /\ run.ticks = 0

SpecDhcp == InitDhcp /\ [][DhcpNext]_vars

SpecFrame == InitFrame /\ [][FrameNext]_vars

InitHold ==
    /\ InitLease
    /\ now = U32Of(0)

SpecHold == InitHold /\ [][HoldNext]_vars

SpecDns == InitDns /\ [][DnsNext]_vars

SpecHttp == InitHttp /\ [][HttpNext]_vars

SpecHttpLive == SpecHttp /\ HttpFairness

SpecPage == InitPage /\ [][PageNext]_vars

SpecLease == InitLease /\ [][LeaseNext]_vars

SpecMain == InitMain /\ [][MainNext]_vars

SpecMainLive == InitMain /\ [][MainNext]_vars /\ MainFairness

=============================================================================
